---- MODULE Spec2Model ----
(***************************************************************************)
(* Model of the OpenChatMobile relay server (src/backend/server.js):       *)
(* the WebSocket streaming relay (wss.on('connection') and its 'message'   *)
(* handler), the non-streaming POST /api/chat handler, the connection      *)
(* registry with its heartbeat timers, GET /api/health, and the process:   *)
(* the spawn of the inference child and the signal handlers.               *)
(*                                                                         *)
(* A text is a sequence of symbols.  A symbol stands for a run of          *)
(* characters that the relay only ever looks at as a whole: the 'data: '   *)
(* prefix, the '[DONE]' sentinel, a line feed, the two halves of a JSON    *)
(* object {"content":"<text>"} and a piece of text that is not JSON.       *)
(* reader.read() may cut the upstream byte stream between any two symbols. *)
(***************************************************************************)
EXTENDS Integers, Sequences, FiniteSets, TLC

\* ------------------------------------------------------------------ bounds
NConns == 2      \* browser connections that may be accepted
MaxReqs == 2     \* WebSocket frames the clients send in a run
MaxLines == 2    \* event-stream lines the inference process sends in a run
MaxPosts == 3    \* POST /api/chat requests in a run
NRandoms == 2    \* values Math.random() may give at an accept
MaxTime == 1     \* milliseconds the clock advances in a run
MaxTicks == 1    \* heartbeat ticks of one connection in a run
MaxHealth == 1   \* GET /api/health requests in a run
MaxLifeReqs == 1 \* chat frames in a run of the registry and of the process
MaxFiles == 3    \* entries of the models directory
MaxLists == 1    \* GET /api/models requests in a run
MaxFlags == 2    \* flags on the command line
MaxKeys == 2     \* keys of the persisted config file
MaxOpens == 2    \* successful opens of the frontend's socket in a run
MaxSends == 1    \* messages the user sends in a run
MaxFrames == 3   \* frames the frontend receives in a run
MaxStarts == 3   \* daemon servers the launcher spawns in a run
MaxChatReqs == 3   \* chat requests the frontend makes in a run of its chats
MaxChats == 2   \* chats the user creates in a run
MaxRetries == 4   \* the largest maxRetries given to ChatUtils.retry

VARIABLES
    activeConnections,  \* server.js:156  the registry: a Map from clientId to ws
    conn,       \* per connection: ws.readyState, its clientId, its heartbeat timer, the ticks fired
    proc,       \* the server process, its inference child, the clock, what was logged and answered
    log,        \* per connection: the frames received on it and the ws.send calls made on it, in order
    handlers,   \* one record per invocation of the async 'message' handler that reached the chat branch
    upstream,   \* the POST /completion requests issued to the inference process, in order
    http,        \* one record per POST /api/chat request
    disk,        \* the file system: the models directory
    cli,        \* the command-line launcher: its flags, the persisted config file, what it resolved and launched
    front,        \* the browser frontend: its socket and reconnect state, the chat history, the stream accumulator
    os,        \* the launcher's host: the PID file, the daemon servers running, what the last command was
    retry        \* one ChatUtils.retry call: its arguments, where it stands, the calls of fn and the waits made

vars == <<activeConnections, conn, proc, log, handlers, upstream, http, disk, cli, front, os, retry>>

Conns == 1..NConns

\* ------------------------------------------------------- texts and symbols
Sym(s, t) == [sym |-> s, txt |-> t]
DataPrefix == Sym("data: ", <<>>)
Sentinel == Sym("[DONE]", <<>>)
LF == Sym("LF", <<>>)
JsonOpen(t) == Sym("{content:", t)
JsonClose == Sym("}", <<>>)
NotJson == Sym("oops", <<>>)

\* The kinds of event-stream line the inference process sends: a token line,
\* a line whose content is the empty string, a line whose payload is not
\* JSON, and the sentinel line.
LineKinds == {"T", "E", "M", "D"}

\* The text of the i-th line of the response to request g names both.
TokenText(g, i) == <<g, i>>

EncodeLine(kind, g, i) ==
    CASE kind = "T" -> <<DataPrefix, JsonOpen(TokenText(g, i)), JsonClose, LF>>
      [] kind = "E" -> <<DataPrefix, JsonOpen(<<>>), JsonClose, LF>>
      [] kind = "M" -> <<DataPrefix, NotJson, LF>>
      [] kind = "D" -> <<DataPrefix, Sentinel, LF>>

RECURSIVE EncodeFrom(_, _, _)
EncodeFrom(kinds, g, i) ==
    IF i > Len(kinds) THEN <<>>
    ELSE EncodeLine(kinds[i], g, i) \o EncodeFrom(kinds, g, i + 1)

\* The response body of request g whose lines are of the given kinds.
EncodeBody(kinds, g) == EncodeFrom(kinds, g, 1)

\* All sequences of line kinds of length at most n.
RECURSIVE Bodies(_)
Bodies(n) ==
    IF n <= 0 THEN {<<>>}
    ELSE LET shorter == Bodies(n - 1)
         IN shorter \cup {Append(b, k) : b \in shorter, k \in LineKinds}

\* chunk.split('\n')
RECURSIVE Split(_)
Split(s) ==
    IF \A i \in 1..Len(s) : s[i] # LF THEN <<s>>
    ELSE LET i == CHOOSE i \in 1..Len(s) :
                      s[i] = LF /\ \A j \in 1..(i - 1) : s[j] # LF
         IN <<SubSeq(s, 1, i - 1)>> \o Split(SubSeq(s, i + 1, Len(s)))

\* JSON.parse(dataStr): ok is FALSE when it throws.
JSONparse(dataStr) ==
    IF /\ Len(dataStr) = 2
       /\ dataStr[1].sym = "{content:"
       /\ dataStr[2] = JsonClose
    THEN [ok |-> TRUE, content |-> dataStr[1].txt]
    ELSE [ok |-> FALSE, content |-> <<>>]

\* ------------------------------------------------------------------ events
\* An entry of a connection's log.  dir "in": a frame received; dir "out":
\* a ws.send call.  gen is the handler invocation that the frame started or
\* that made the call (0: none); it is not part of the frame.
Ev(dir, type, gen, token, message) ==
    [dir |-> dir, type |-> type, gen |-> gen, token |-> token, message |-> message]

NoMsg == <<"", 0>>
SyntaxErrorMsg == <<"Unexpected token", 0>>
FetchFailedMsg == <<"fetch failed", 0>>
ReadFailedMsg == <<"terminated", 0>>
NotOkMsg(status) == <<"LLaMA server responded with", status>>
TypeErrorMsg == <<"Cannot read properties of undefined", 0>>

TokenEv(g, t) == Ev("out", "token", g, t, NoMsg)
DoneEv(g) == Ev("out", "done", g, <<>>, NoMsg)
ErrorEv(g, m) == Ev("out", "error", g, <<>>, m)

\* ------------------------------------------------------- the stream relay
\* The same, were the socket kept in one variable of the module that every
\* chat message overwrites: the socket of the latest chat.
SocketOfLatestChat(g) == handlers[Len(handlers)].conn

\* server.js:158  the ws of the connection callback, which the handler's
\* closure captures.
Socket(g) == handlers[g].conn

\* ws.send(JSON.stringify(ev)) for each ev of evs, in order, on connection c.
SendAll(lg, c, evs) == [lg EXCEPT ![c] = @ \o evs]

\* server.js:214-220  the body of the inner try: parse the payload and send a
\* token when it has content.  threw: JSON.parse threw.
ParseAndSend(dataStr, g) ==
    LET jsonData == JSONparse(dataStr)
    IN IF ~jsonData.ok THEN [events |-> <<>>, threw |-> TRUE]
       ELSE IF jsonData.content # <<>>
            THEN [events |-> <<TokenEv(g, jsonData.content)>>, threw |-> FALSE]
            ELSE [events |-> <<>>, threw |-> FALSE]

\* The same without the catch: the exception leaves the forEach callback.
TryNoCatch(dataStr, g) == ParseAndSend(dataStr, g)

\* server.js:213-223  try { ... } catch (e) { logger.error(...) }
TryCatch(dataStr, g) ==
    [events |-> ParseAndSend(dataStr, g).events, threw |-> FALSE]

\* server.js:204-225  the forEach callback on one line.
OnLine(line, g) ==
    IF Len(line) >= 1 /\ line[1] = DataPrefix
    THEN LET dataStr == Tail(line)
         IN IF dataStr = <<Sentinel>>
            THEN [events |-> <<DoneEv(g)>>, threw |-> FALSE]
            ELSE TryCatch(dataStr, g)
    ELSE [events |-> <<>>, threw |-> FALSE]

\* server.js:204  lines.forEach(callback): the callbacks run in order; an
\* exception that leaves one ends the forEach.
RECURSIVE ForEach(_, _)
ForEach(lines, g) ==
    IF lines = <<>> THEN [events |-> <<>>, threw |-> FALSE]
    ELSE LET r == OnLine(Head(lines), g)
         IN IF r.threw THEN r
            ELSE LET rest == ForEach(Tail(lines), g)
                 IN [events |-> r.events \o rest.events, threw |-> rest.threw]

\* server.js:201-225  what one chunk makes the relay send.
ProcessChunk(chunk, g) == ForEach(Split(chunk), g)

\* --------------------------------------------------------------- counters
RECURSIVE SumLines(_)
SumLines(hs) == IF hs = <<>> THEN 0 ELSE Len(Head(hs).kinds) + SumLines(Tail(hs))

\* Event-stream lines sent so far by the inference process.
LinesUsed == SumLines(handlers)

RECURSIVE CountIn(_)
CountIn(evs) ==
    IF evs = <<>> THEN 0
    ELSE (IF Head(evs).dir = "in" THEN 1 ELSE 0) + CountIn(Tail(evs))

RECURSIVE SumIn(_)
SumIn(c) == IF c = 0 THEN 0 ELSE CountIn(log[c]) + SumIn(c - 1)

\* WebSocket frames received so far.
NumRequests == SumIn(NConns)

\* ------------------------------------------------------------------- Init
NoId == <<0, 0>>

\* server.js:156  new Map()
EmptyMap == [id \in {} |-> 0]

\* activeConnections.set(id, c)
MapSet(map, id, c) == [x \in DOMAIN map \cup {id} |-> IF x = id THEN c ELSE map[x]]

\* activeConnections.delete(id)
MapDelete(map, id) == [x \in DOMAIN map \ {id} |-> map[x]]

\* ------------------------------------------------ the frontend (README.md)
\* README.md:193  this.maxReconnectAttempts
maxReconnectAttempts == 5

\* README.md:544  the step and the cap of the reconnect delay, in ms.
ReconnectStep == 3000
ReconnectCap == 15000

\* README.md:542,1975  the close code of a normal closure.
NormalClosure == 1000

\* README.md:537-542  the close codes of a close event: normal, going away,
\* abnormal.
CloseCodes == {NormalClosure, 1001, 1006}

\* README.md:185-203,774-808  the state after the constructor and loadChats
\* with nothing in localStorage: one chat, created empty and selected.  ws:
\* the state of this.ws; timer: the delay of the pending reconnect timeout
\* (0: none); now: the clock; chats: the messages of each chat of the
\* collection, by chat id; currentChatId: 0 for null; created: the chats
\* created so far, whose ids are 1..created; chatHistory: what localStorage
\* holds of chats; fetches: the pending POST /api/chat requests.
\* What happened is recorded by: delays, the delays scheduled since the last
\* open; opens, frames, sends, the opens, frames and sendMessage calls so
\* far; requests, the chat requests sent so far, which number the
\* generations; typingGen, the generation of the message being typed; at,
\* the chat and place of the bot message of each generation; pending, the
\* generations the server is producing on this socket; open, the requests
\* not ended by done, error, an HTTP response or a stop; received, the
\* tokens received of each generation; shown, for each generation the
\* generations of the tokens accumulated for its message; finished, the
\* generations whose done arrived.
FrontInit ==
    [ws |-> "none", isConnected |-> FALSE, reconnectAttempts |-> 0, timer |-> 0,
     lastCode |-> 0, delays |-> <<>>, opens |-> 0, frames |-> 0, sends |-> 0,
     now |-> 1, isGenerating |-> FALSE, typingMessageId |-> 0, fetches |-> {},
     chats |-> MapSet(EmptyMap, 1, <<>>), currentChatId |-> 1, created |-> 1,
     chatHistory |-> MapSet(EmptyMap, 1, <<>>), accumulatedContent |-> EmptyMap,
     requests |-> 0, typingGen |-> 0, at |-> EmptyMap, pending |-> {}, open |-> {},
     received |-> EmptyMap, shown |-> EmptyMap, finished |-> {}]

\* README.md:774-797  the same with one chat found in localStorage: no chat
\* is selected.
FrontLoaded == [FrontInit EXCEPT !.currentChatId = 0]

\* ------------------------------------------------ the launcher's PID file
\* No PID file, no daemon server running, no command run yet.  pidFile: the
\* PID the file holds (0: no file); running: the PIDs of the daemon servers
\* alive; signalled: those of them sent SIGTERM; spawned: the servers
\* spawned so far, whose PIDs are 1..spawned; pc: where a restart stands;
\* last: the command that returned last, or "exit" after a server's exit.
OsInit ==
    [pidFile |-> 0, running |-> {}, signalled |-> {}, spawned |-> 0,
     pc |-> "idle", last |-> "none"]

\* ------------------------------------------------------ ChatUtils.retry
\* part_000:547  the defaults of maxRetries and initialDelay.
DefaultMaxRetries == 3
DefaultInitialDelay == 1000

\* part_000:547-563  a call of retry(fn, maxRetries, initialDelay) where the
\* loop stands at i.  pc: "loop" at the loop test, "sleep" in the wait,
\* "returned", "thrown", "idle" without a call; lastError and result: <<>>
\* for undefined; calls: what each call of fn did, in order; sleeps: the
\* waits made, in order.
RetryState(pc, maxRetries, initialDelay) ==
    [pc |-> pc, maxRetries |-> maxRetries, initialDelay |-> initialDelay, i |-> 0,
     lastError |-> <<>>, result |-> <<>>, calls |-> <<>>, sleeps |-> <<>>]

RetryIdle == RetryState("idle", 0, 0)

\* What a call of fn does: it resolves with a value or rejects with an error.
FnOutcomes ==
    { [ok |-> TRUE, value |-> "r1"], [ok |-> TRUE, value |-> "r2"],
      [ok |-> FALSE, value |-> "e1"], [ok |-> FALSE, value |-> "e2"] }

\* Math.pow(2, i)
RECURSIVE Pow2(_)
Pow2(i) == IF i <= 0 THEN 1 ELSE 2 * Pow2(i - 1)

\* The wait made after every failed call, the last one too.
WaitsAlways(i, maxRetries) == TRUE

\* part_000:555  if (i < maxRetries - 1)
WaitsAfter(i, maxRetries) == i < maxRetries - 1

\* part_000:547  a parameter's default stands in for an argument left out.
ArgOrDefault(arg, default) == IF arg = <<>> THEN default ELSE arg[1]

\* The process once the module has been evaluated: the child has been
\* spawned once, the clock stands at 0.
ProcInit(child) ==
    [server |-> "running", child |-> child, spawns |-> 1, events |-> <<>>,
     logged |-> {}, now |-> 0, health |-> <<>>, models |-> <<>>]

\* ------------------------------------------------------ the launcher (cli.js)
\* cli.js:91-102  the settings of DEFAULT_CONFIG.
Settings ==
    {"port", "llamaPort", "wsPort", "model", "ctxSize", "nGpuLayers", "parallel",
     "host", "logFile", "verbose"}

\* cli.js:91-102 and server.js:67-78  the built-in default of a setting; the
\* two files give the same values.  Values other than verbose are told apart
\* by where they come from.
Default(k) == IF k = "verbose" THEN FALSE ELSE <<"default", k>>

DEFAULT_CONFIG == [k \in Settings |-> Default(k)]

\* The flags the usage text names, and --foreground.
FlagNames ==
    {"-p", "--port", "--llama-port", "--ws-port", "-m", "--model", "--ctx-size",
     "--gpu-layers", "--parallel", "--host", "--log-file", "-v", "--verbose",
     "--foreground"}

\* The value the parser gives a flag: the argument that follows it, true for
\* --verbose.
FlagValue(f) == IF f = "--verbose" THEN TRUE ELSE <<"flag", f>>

\* The value of a key of the config file.
FileValue(k, verbose) == IF k = "verbose" THEN verbose ELSE <<"file", k>>

\* A config file: missing, not JSON, or an object with some keys.
ConfigFile(state, keys, verbose) == [state |-> state, keys |-> keys, verbose |-> verbose]

\* The launcher before it runs.
CliState(given, file, pc, resolved, config, servers, llamas) ==
    [given |-> given, file |-> file, pc |-> pc, resolved |-> resolved,
     config |-> config, servers |-> servers, llamas |-> llamas]

CliIdle ==
    CliState({}, ConfigFile("missing", {}, FALSE), "idle", FALSE, DEFAULT_CONFIG, <<>>, <<>>)

\* A models directory: whether it exists and can be read, and its entries in
\* the order readdirSync gives them.
Dir(state, entries) == [state |-> state, entries |-> entries]

\* A file system whose models directory is empty.
DiskInit == [models |-> Dir("ok", <<>>)]

ConnInit == [c \in Conns |-> [readyState |-> "NONE", clientId |-> NoId,
                              timer |-> FALSE, ticks |-> 0]]

Init ==
    /\ activeConnections = EmptyMap
    /\ conn = ConnInit
    /\ proc = ProcInit("running")
    /\ log = [c \in Conns |-> <<>>]
    /\ handlers = <<>>
    /\ upstream = <<>>
    /\ http = <<>>
    /\ disk = DiskInit
    /\ cli = CliIdle
    /\ front = FrontInit
    /\ os = OsInit
    /\ retry = RetryIdle

\* ---------------------------------------------------------------- actions
\* server.js:159  Date.now() + Math.random().toString(36).substr(2, 9): the
\* digits of the clock followed by the characters drawn.
ClientId(now, random) == <<now, random>>

\* server.js:158-173,246-251  wss.on('connection'): draw the id, register,
\* send the welcome, start the heartbeat timer.  random: what Math.random()
\* gives.
WsConnect(c, random) ==
    /\ conn[c].readyState = "NONE"
    /\ LET clientId == ClientId(proc.now, random)
       IN /\ activeConnections' = MapSet(activeConnections, clientId, c)
          /\ conn' = [conn EXCEPT ![c].readyState = "OPEN", ![c].clientId = clientId,
                                  ![c].timer = TRUE]
    /\ log' = SendAll(log, c, <<Ev("out", "info", 0, <<>>, NoMsg)>>)
    /\ UNCHANGED <<proc, handlers, upstream, http, disk, cli, front, os, retry>>

\* The frames a client may send: text that is not JSON, a chat with and
\* without its message field, and a stop.
Frame(json, type, message, maxTokens, temperature) ==
    [json |-> json, type |-> type, message |-> message,
     maxTokens |-> maxTokens, temperature |-> temperature]

ClientFrames ==
    { Frame(FALSE, "", <<>>, <<>>, <<>>),
      Frame(TRUE, "chat", <<"hi">>, <<>>, <<>>),
      Frame(TRUE, "chat", <<>>, <<>>, <<>>),
      Frame(TRUE, "stop", <<>>, <<>>, <<>>) }

\* server.js:186  the default of n_predict.
DefaultMaxTokens == 200

\* server.js:187  the default of temperature, 0.7, in tenths (temperatures
\* are counted in tenths throughout).
DefaultTemperature == 7

\* server.js:186-187  field || default: the default stands in for an absent
\* field and for any falsy one, 0 among them.
OrDefault(field, default) ==
    IF field = <<>> \/ field = <<0>> THEN default ELSE field[1]

\* server.js:184-189  the body of the streaming completion request.  An
\* absent field (<<>>) is left out by JSON.stringify.
CompletionRequest(src, id, prompt, n_predict, temperature, stream) ==
    [src |-> src, id |-> id, prompt |-> prompt, n_predict |-> n_predict,
     temperature |-> temperature, stream |-> stream]

\* server.js:175-190,228-234  ws.on('message') up to its first await.
WsMessage(c, frame) ==
    /\ conn[c].readyState = "OPEN"
    /\ IF ~frame.json
       THEN \* JSON.parse throws: the catch sends an error
            /\ log' = SendAll(log, c, <<Ev("in", "invalid", 0, <<>>, NoMsg),
                                        ErrorEv(0, SyntaxErrorMsg)>>)
            /\ UNCHANGED <<handlers, upstream>>
       ELSE IF frame.type = "chat"
       THEN LET g == Len(handlers) + 1
            IN /\ log' = SendAll(log, c, <<Ev("in", "chat", g, <<>>, NoMsg)>>)
               /\ handlers' = Append(handlers,
                      [conn |-> c, pc |-> "fetch", message |-> frame.message,
                       maxTokens |-> frame.maxTokens, temperature |-> frame.temperature,
                       kinds |-> <<>>, stream |-> <<>>, pos |-> 0, outcome |-> ""])
               /\ upstream' = Append(upstream,
                      CompletionRequest("ws", g, frame.message,
                          OrDefault(frame.maxTokens, DefaultMaxTokens),
                          OrDefault(frame.temperature, DefaultTemperature), TRUE))
       ELSE \* no branch for any other type
            /\ log' = SendAll(log, c, <<Ev("in", frame.type, 0, <<>>, NoMsg)>>)
            /\ UNCHANGED <<handlers, upstream>>
    /\ UNCHANGED <<activeConnections, conn, proc, http, disk, cli, front, os, retry>>

\* server.js:228-234  catch (error): send the error; the handler returns.
Catch(g, outcome, msg) ==
    /\ log' = SendAll(log, Socket(g), <<ErrorEv(g, msg)>>)
    /\ handlers' = [handlers EXCEPT ![g].pc = "ended", ![g].outcome = outcome]

\* server.js:181  fetch rejects (connection refused).
FetchRefused(g) ==
    /\ g \in DOMAIN handlers
    /\ handlers[g].pc = "fetch"
    /\ Catch(g, "refused", FetchFailedMsg)
    /\ UNCHANGED <<activeConnections, conn, proc, upstream, http, disk, cli, front, os, retry>>

\* Statuses other than 2xx that the inference process answers with.
ErrorStatuses == {503}

\* server.js:192-194  if (!response.ok) throw
FetchNotOk(g, status) ==
    /\ g \in DOMAIN handlers
    /\ handlers[g].pc = "fetch"
    /\ Catch(g, "notOk", NotOkMsg(status))
    /\ UNCHANGED <<activeConnections, conn, proc, upstream, http, disk, cli, front, os, retry>>

\* server.js:192-196  the response is ok: getReader().  kinds: the lines the
\* inference process will send on this response.
FetchOk(g, kinds) ==
    /\ g \in DOMAIN handlers
    /\ handlers[g].pc = "fetch"
    /\ handlers' = [handlers EXCEPT ![g].pc = "read",
                                    ![g].kinds = kinds,
                                    ![g].stream = EncodeBody(kinds, g)]
    /\ UNCHANGED <<activeConnections, conn, proc, log, upstream, http, disk, cli, front, os, retry>>

\* The same, the reader's rejection taken for the end of the stream.
ReadErrorSwallowed(g) ==
    /\ g \in DOMAIN handlers
    /\ handlers[g].pc = "read"
    /\ handlers' = [handlers EXCEPT ![g].pc = "ended", ![g].outcome = "readError"]
    /\ UNCHANGED <<activeConnections, conn, proc, log, upstream, http, disk, cli, front, os, retry>>

\* server.js:198,228-234  reader.read() rejects: the outer catch.
ReadError(g) ==
    /\ g \in DOMAIN handlers
    /\ handlers[g].pc = "read"
    /\ Catch(g, "readError", ReadFailedMsg)
    /\ UNCHANGED <<activeConnections, conn, proc, upstream, http, disk, cli, front, os, retry>>

\* server.js:198-199  reader.read() gives done: break; the handler returns.
ReadDone(g) ==
    /\ g \in DOMAIN handlers
    /\ handlers[g].pc = "read"
    /\ handlers[g].pos = Len(handlers[g].stream)
    /\ handlers' = [handlers EXCEPT ![g].pc = "ended", ![g].outcome = "eof"]
    /\ UNCHANGED <<activeConnections, conn, proc, log, upstream, http, disk, cli, front, os, retry>>

\* server.js:198-225  reader.read() gives the next n symbols of the stream.
ReadChunk(g, n) ==
    /\ g \in DOMAIN handlers
    /\ handlers[g].pc = "read"
    /\ n >= 1
    /\ handlers[g].pos + n <= Len(handlers[g].stream)
    /\ LET chunk == SubSeq(handlers[g].stream, handlers[g].pos + 1, handlers[g].pos + n)
           r == ProcessChunk(chunk, g)
       IN IF r.threw
          THEN /\ log' = SendAll(log, Socket(g), r.events \o <<ErrorEv(g, SyntaxErrorMsg)>>)
               /\ handlers' = [handlers EXCEPT ![g].pos = @ + n, ![g].pc = "ended",
                                               ![g].outcome = "parseThrow"]
          ELSE /\ log' = SendAll(log, Socket(g), r.events)
               /\ handlers' = [handlers EXCEPT ![g].pos = @ + n]
    /\ UNCHANGED <<activeConnections, conn, proc, upstream, http, disk, cli, front, os, retry>>

\* ---------------------------------------------------------- POST /api/chat
\* res.json(...) and res.status(500).json({ error }): the reply to request h.
Reply(status, err, response, tokens_used) ==
    [status |-> status, error |-> err, response |-> response, tokens_used |-> tokens_used]

NoReply == Reply(0, NoMsg, <<>>, <<>>)

\* What the inference process may answer to a non-streaming completion
\* request: a completion, an error status with a JSON error body (no content
\* field), an error status with a body that is not JSON.
HttpReplies ==
    { [status |-> 200, json |-> TRUE, content |-> <<"hello">>, tokens_used |-> <<3>>],
      [status |-> 503, json |-> TRUE, content |-> <<>>, tokens_used |-> <<>>],
      [status |-> 503, json |-> FALSE, content |-> <<>>, tokens_used |-> <<>>] }

\* No answer of the inference process yet.
NoUp == [status |-> 0, json |-> FALSE, content |-> <<>>, tokens_used |-> <<>>]

\* The default standing in for an absent field and for a falsy one as well.
DefaultWhenFalsy(field, default) == OrDefault(field, default)

\* server.js:280  const { maxTokens = 200, temperature = 0.7 } = req.body: the
\* default stands in for an absent field only.
DestructuringDefault(field, default) ==
    IF field = <<>> THEN default ELSE field[1]

\* One POST /api/chat request: its body, where its handler stands, what the
\* inference process answered, what it replied.
HttpRequest(pc, message, maxTokens, temperature, reply) ==
    [pc |-> pc, message |-> message, maxTokens |-> maxTokens,
     temperature |-> temperature, upStatus |-> 0, up |-> NoUp, reply |-> reply]

\* server.js:278-293,306-309  app.post('/api/chat') up to its first await.
\* message.length throws when the body has no message: the catch answers 500.
HttpChat(message, maxTokens, temperature) ==
    /\ LET h == Len(http) + 1
       IN IF message = <<>>
          THEN /\ http' = Append(http, HttpRequest("done", message, maxTokens, temperature,
                                                   Reply(500, TypeErrorMsg, <<>>, <<>>)))
               /\ UNCHANGED upstream
          ELSE /\ http' = Append(http, HttpRequest("fetch", message, maxTokens, temperature,
                                                   NoReply))
               /\ upstream' = Append(upstream,
                      CompletionRequest("http", h, message,
                          DestructuringDefault(maxTokens, DefaultMaxTokens),
                          DestructuringDefault(temperature, DefaultTemperature), FALSE))
    /\ UNCHANGED <<activeConnections, conn, proc, log, handlers, disk, cli, front, os, retry>>

\* server.js:284,306-309  fetch rejects (connection refused): the catch.
HttpFetchRefused(h) ==
    /\ h \in DOMAIN http
    /\ http[h].pc = "fetch"
    /\ http' = [http EXCEPT ![h].pc = "done",
                            ![h].reply = Reply(500, FetchFailedMsg, <<>>, <<>>)]
    /\ UNCHANGED <<activeConnections, conn, proc, log, handlers, upstream, disk, cli, front, os, retry>>

\* server.js:295-309  the inference process answers r: response.json(), then
\* res.json({response: data.content, tokens_used: data.tokens_used}).  The
\* status of r is not looked at.
HttpFetchReply(h, r) ==
    /\ h \in DOMAIN http
    /\ http[h].pc = "fetch"
    /\ IF ~r.json
       THEN http' = [http EXCEPT ![h].pc = "done", ![h].upStatus = r.status, ![h].up = r,
                                 ![h].reply = Reply(500, SyntaxErrorMsg, <<>>, <<>>)]
       ELSE http' = [http EXCEPT ![h].pc = "done", ![h].upStatus = r.status, ![h].up = r,
                                 ![h].reply = Reply(200, NoMsg, r.content, r.tokens_used)]
    /\ UNCHANGED <<activeConnections, conn, proc, log, handlers, upstream, disk, cli, front, os, retry>>

\* --------------------------------------------------------- GET /api/models
\* A file name is a sequence of parts, the last being its extension.
FileNames ==
    { <<"a", ".gguf">>, <<"b", ".gguf">>, <<"notes", ".txt">>, <<"a", ".gguf", ".bak">> }

\* Sizes in bytes: just under half a megabyte, half a megabyte, and above
\* one and a half.
FileSizes == {524287, 524288, 1600000}

\* An entry of the directory; stat: whether statSync succeeds on it (it fails
\* on a dangling symbolic link).
Files == [name : FileNames, size : FileSizes, stat : BOOLEAN]

\* The listings of at most n entries with distinct names.
RECURSIVE Listings(_)
Listings(n) ==
    IF n = 0 THEN {<<>>}
    ELSE LET shorter == Listings(n - 1)
         IN shorter \cup
            { Append(l, f) : l \in {x \in shorter : Len(x) = n - 1},
                             f \in Files }

DistinctNames(l) == \A i, j \in DOMAIN l : i # j => l[i].name # l[j].name

\* The models directories: missing, unreadable, or listed.
Dirs ==
    { Dir(state, entries) :
        state \in {"ok", "missing", "unreadable"},
        entries \in {l \in Listings(MaxFiles) : DistinctNames(l)} }

\* server.js:343  file.endsWith('.gguf')
EndsWith(name, suffix) == Len(name) >= 1 /\ name[Len(name)] = suffix

\* The bytes of a megabyte.
MiB == 1048576

\* The same, truncating.
Truncate(n, d) == n \div d

\* server.js:349  Math.round(n / d) for n >= 0, d > 0: halves go up.
MathRound(n, d) == (2 * n + d) \div (2 * d)

\* server.js:345-350  the entry pushed for a file.
ModelEntry(f) ==
    [name |-> f.name, path |-> <<"./../models/">> \o f.name, size |-> f.size,
     sizeMB |-> MathRound(f.size, MiB)]

ModelsReplyOk(models) == [status |-> 200, models |-> models, error |-> NoMsg]

StatFailedMsg == <<"ENOENT: no such file or directory, stat", 0>>
ReaddirFailedMsg == <<"EACCES: permission denied, scandir", 0>>

\* server.js:342-352  files.forEach: an entry per name that ends with .gguf;
\* a statSync that throws leaves the forEach and the try.
RECURSIVE ListModels(_)
ListModels(entries) ==
    IF entries = <<>> THEN [models |-> <<>>, threw |-> FALSE]
    ELSE LET f == Head(entries)
             rest == ListModels(Tail(entries))
         IN IF ~EndsWith(f.name, ".gguf") THEN rest
            ELSE IF ~f.stat THEN [models |-> <<>>, threw |-> TRUE]
            ELSE [models |-> <<ModelEntry(f)>> \o rest.models, threw |-> rest.threw]

\* server.js:335-360  the reply of GET /api/models for a models directory.
ModelsReply(dir) ==
    IF dir.state = "missing" THEN ModelsReplyOk(<<>>)
    ELSE IF dir.state = "unreadable"
    THEN [status |-> 500, models |-> <<>>, error |-> ReaddirFailedMsg]
    ELSE LET r == ListModels(dir.entries)
         IN IF r.threw THEN [status |-> 500, models |-> <<>>, error |-> StatFailedMsg]
            ELSE ModelsReplyOk(r.models)

\* The server runs over any models directory.
InitModels ==
    /\ activeConnections = EmptyMap
    /\ conn = ConnInit
    /\ proc = ProcInit("running")
    /\ log = [c \in Conns |-> <<>>]
    /\ handlers = <<>>
    /\ upstream = <<>>
    /\ http = <<>>
    /\ \E dir \in Dirs : disk = [models |-> dir]
    /\ cli = CliIdle
    /\ front = FrontInit
    /\ os = OsInit
    /\ retry = RetryIdle

\* server.js:335-360  app.get('/api/models')
GetModels ==
    /\ proc' = [proc EXCEPT !.models = Append(@, ModelsReply(disk.models))]
    /\ UNCHANGED <<activeConnections, conn, log, handlers, upstream, http, disk, cli, front, os, retry>>

\* ------------------------------------------------------ launching (cli.js)
\* cli.js:163-174  loadConfig: the defaults, overridden by the keys of the
\* file when it exists and parses.
loadConfig(file) ==
    IF file.state = "ok"
    THEN [k \in Settings |->
            IF k \in file.keys THEN FileValue(k, file.verbose) ELSE DEFAULT_CONFIG[k]]
    ELSE DEFAULT_CONFIG

\* cli.js:513-522  the flags read for a setting, in the order of the || chain.
FlagsRead(k) ==
    CASE k = "port" -> <<"-p", "--port">>
      [] k = "llamaPort" -> <<"--llama-port">>
      [] k = "wsPort" -> <<"--ws-port">>
      [] k = "model" -> <<"-m", "--model">>
      [] k = "ctxSize" -> <<"--ctx-size">>
      [] k = "nGpuLayers" -> <<"--gpu-layers">>
      [] k = "parallel" -> <<"--parallel">>
      [] k = "host" -> <<"--host">>
      [] k = "logFile" -> <<"--log-file">>
      [] k = "verbose" -> <<"--verbose">>

\* a || b || base over the flags of a setting.
RECURSIVE OrChain(_, _, _)
OrChain(flags, given, base) ==
    IF flags = <<>> THEN base
    ELSE IF Head(flags) \in given THEN FlagValue(Head(flags))
    ELSE OrChain(Tail(flags), given, base)

\* cli.js:510-522  the config of main: baseConfig overridden by the flags.
ResolveConfig(given, baseConfig) ==
    [k \in Settings |-> OrChain(FlagsRead(k), given, baseConfig[k])]

\* The command lines with at most n flags.
RECURSIVE FlagSets(_)
FlagSets(n) ==
    IF n = 0 THEN {{}}
    ELSE LET smaller == FlagSets(n - 1)
         IN smaller \cup {g \cup {f} : g \in smaller, f \in FlagNames}

\* The key sets of at most n keys.
RECURSIVE KeySets(_)
KeySets(n) ==
    IF n = 0 THEN {{}}
    ELSE LET smaller == KeySets(n - 1)
         IN smaller \cup {g \cup {k} : g \in smaller, k \in Settings}

ConfigFiles ==
    {ConfigFile("missing", {}, FALSE), ConfigFile("malformed", {}, FALSE)}
    \cup {ConfigFile("ok", keys, verbose) : keys \in KeySets(MaxKeys), verbose \in BOOLEAN}

\* `open-chat-mobile start` with any flags over any config file.
InitCli ==
    /\ activeConnections = EmptyMap
    /\ conn = ConnInit
    /\ proc = ProcInit("running")
    /\ log = [c \in Conns |-> <<>>]
    /\ handlers = <<>>
    /\ upstream = <<>>
    /\ http = <<>>
    /\ disk = DiskInit
    /\ \E given \in FlagSets(MaxFlags), file \in ConfigFiles :
          cli = CliState(given, file, "parsed", FALSE, DEFAULT_CONFIG, <<>>, <<>>)
    /\ front = FrontInit
    /\ os = OsInit
    /\ retry = RetryIdle

\* cli.js:474-532  main up to the switch: -v prints the version and exits;
\* otherwise the configuration is resolved and the command, start, runs.
CliMain ==
    /\ cli.pc = "parsed"
    /\ IF "-v" \in cli.given
       THEN cli' = [cli EXCEPT !.pc = "exited"]
       ELSE cli' = [cli EXCEPT !.pc = "start", !.resolved = TRUE,
                               !.config = ResolveConfig(cli.given, loadConfig(cli.file))]
    /\ UNCHANGED <<activeConnections, conn, proc, log, handlers, upstream, http, disk, front, os, retry>>

\* An argument of a command line: an option (--key) or a value.
Option(key) == [dashes |-> TRUE, key |-> key, value |-> <<"option", key>>]
Value(v) == [dashes |-> FALSE, key |-> "", value |-> v]

\* server.js:68-77  the option of the server's command line read for a
\* setting.
ServerOption(k) ==
    CASE k = "port" -> "port"
      [] k = "llamaPort" -> "llama-port"
      [] k = "wsPort" -> "ws-port"
      [] k = "model" -> "model"
      [] k = "ctxSize" -> "ctx-size"
      [] k = "nGpuLayers" -> "gpu-layers"
      [] k = "parallel" -> "parallel"
      [] k = "host" -> "host"
      [] k = "logFile" -> "log-file"
      [] k = "verbose" -> "verbose"

ServerOptions == {ServerOption(k) : k \in Settings}

\* cli.js:257-268 and 310-320  the arguments after the script: eight
\* settings with their values, then --verbose alone when verbose is set.
\* (startAsDaemon passes value.toString(), startInForeground the value, which
\* spawn turns into the same text.)
ServerArgs(config) ==
    <<Option("llama-port"), Value(config["llamaPort"]),
      Option("port"), Value(config["port"]),
      Option("model"), Value(config["model"]),
      Option("ctx-size"), Value(config["ctxSize"]),
      Option("gpu-layers"), Value(config["nGpuLayers"]),
      Option("parallel"), Value(config["parallel"]),
      Option("host"), Value(config["host"]),
      Option("log-file"), Value(config["logFile"])>>
    \o (IF config["verbose"] THEN <<Option("verbose")>> ELSE <<>>)

\* server.js:57-64  for (i = 0; i < args.length; i += 2): an argument that
\* starts with -- takes the next argument as its value, undefined (<<>>) when
\* there is none.
RECURSIVE ParseArgs(_, _, _)
ParseArgs(args, i, parsedArgs) ==
    IF i > Len(args) THEN parsedArgs
    ELSE IF args[i].dashes
    THEN ParseArgs(args, i + 2,
             [parsedArgs EXCEPT ![args[i].key] =
                  IF i + 1 <= Len(args) THEN <<args[i + 1].value>> ELSE <<>>])
    ELSE ParseArgs(args, i + 2, parsedArgs)

\* The text 'true' as the value of an argument.
TrueText == <<"text", "true">>

\* server.js:67-78  the server's config: the argument, else the default (the
\* environment gives none); verbose only when the argument is the text
\* 'true'.
ServerConfig(parsedArgs) ==
    [k \in Settings |->
        IF k = "verbose" THEN parsedArgs["verbose"] = <<TrueText>>
        ELSE IF parsedArgs[ServerOption(k)] # <<>> THEN parsedArgs[ServerOption(k)][1]
        ELSE Default(k)]

\* cli.js:289-298 and server.js:123-132  an inference process, launched by
\* the launcher or by the server with the settings of its config.
Llama(by, config) ==
    [by |-> by, model |-> config["model"], port |-> config["llamaPort"],
     host |-> config["host"], ctxSize |-> config["ctxSize"],
     nGpuLayers |-> config["nGpuLayers"], parallel |-> config["parallel"]]

\* A server process spawned by the launcher, before its module is evaluated.
ServerProcess(mode, args) ==
    [mode |-> mode, args |-> args, started |-> FALSE, config |-> DEFAULT_CONFIG]

\* cli.js:229-283  startServer without --foreground: startAsDaemon spawns
\* the server detached.
StartAsDaemon ==
    /\ cli.pc = "start"
    /\ "--foreground" \notin cli.given
    /\ cli' = [cli EXCEPT !.pc = "daemon",
                          !.servers = Append(@, ServerProcess("daemon", ServerArgs(cli.config)))]
    /\ UNCHANGED <<activeConnections, conn, proc, log, handlers, upstream, http, disk, front, os, retry>>

\* cli.js:229-307  startServer with --foreground: startInForeground spawns
\* the inference process, then waits two seconds.
StartInForeground ==
    /\ cli.pc = "start"
    /\ "--foreground" \in cli.given
    /\ cli' = [cli EXCEPT !.pc = "sleep", !.llamas = Append(@, Llama("cli", cli.config))]
    /\ UNCHANGED <<activeConnections, conn, proc, log, handlers, upstream, http, disk, front, os, retry>>

\* cli.js:308-328  after the wait, startInForeground spawns the server.
ForegroundSpawn ==
    /\ cli.pc = "sleep"
    /\ cli' = [cli EXCEPT !.pc = "foreground",
                          !.servers = Append(@, ServerProcess("foreground", ServerArgs(cli.config)))]
    /\ UNCHANGED <<activeConnections, conn, proc, log, handlers, upstream, http, disk, front, os, retry>>

\* server.js:56-132  a spawned server evaluates its module: it parses its
\* arguments, builds its config and spawns an inference process.
ServerBoot(i) ==
    /\ i \in DOMAIN cli.servers
    /\ ~cli.servers[i].started
    /\ LET config == ServerConfig(ParseArgs(cli.servers[i].args, 1,
                                            [o \in ServerOptions |-> <<>>]))
       IN cli' = [cli EXCEPT !.servers[i].started = TRUE,
                             !.servers[i].config = config,
                             !.llamas = Append(@, Llama("server", config))]
    /\ UNCHANGED <<activeConnections, conn, proc, log, handlers, upstream, http, disk, front, os, retry>>

\* ------------------------------------------- the launcher: the daemon
\* cli.js:194-205  readPid(): the PID in the file, 0 (null) without a file.
readPid(o) == o.pidFile

\* cli.js:207-223  process.kill(pid, signal) succeeds for a process that
\* exists: killProcess and isProcessRunning return true.
isProcessRunning(o, pid) == pid \in o.running

\* cli.js:254-283  startAsDaemon: spawn the server detached and write its
\* PID to the file.
startAsDaemon(o) ==
    LET pid == o.spawned + 1
    IN [o EXCEPT !.spawned = pid, !.running = @ \cup {pid}, !.pidFile = pid]

\* cli.js:338-354  stopServer: without a PID, nothing; when the signal could
\* be sent, the file is removed; otherwise it is left.
stopServer(o) ==
    LET pid == readPid(o)
    IN IF pid = 0 THEN o
       ELSE IF isProcessRunning(o, pid)
            THEN [o EXCEPT !.signalled = @ \cup {pid}, !.pidFile = 0]
            ELSE o

\* cli.js:356-379  showStatus: the file of a process that is not running is
\* removed.
showStatus(o) ==
    LET pid == readPid(o)
    IN IF pid # 0 /\ isProcessRunning(o, pid) THEN o
       ELSE IF pid # 0 THEN [o EXCEPT !.pidFile = 0] ELSE o

\* cli.js:525-527  the start command, not in the foreground.
StartCommand ==
    /\ os.pc = "idle"
    /\ os' = [startAsDaemon(os) EXCEPT !.last = "start"]
    /\ UNCHANGED <<activeConnections, conn, proc, log, handlers, upstream, http, disk, cli, front, retry>>

\* cli.js:529-531  the stop command.
StopCommand ==
    /\ os.pc = "idle"
    /\ os' = [stopServer(os) EXCEPT !.last = "stop"]
    /\ UNCHANGED <<activeConnections, conn, proc, log, handlers, upstream, http, disk, cli, front, retry>>

\* cli.js:533-535  the restart command: stopServer, then a wait of a second.
RestartCommand ==
    /\ os.pc = "idle"
    /\ os' = [stopServer(os) EXCEPT !.pc = "restart", !.last = "stop"]
    /\ UNCHANGED <<activeConnections, conn, proc, log, handlers, upstream, http, disk, cli, front, retry>>

\* cli.js:536  the restart command after the wait: startServer.
RestartStart ==
    /\ os.pc = "restart"
    /\ os' = [startAsDaemon(os) EXCEPT !.pc = "idle", !.last = "restart"]
    /\ UNCHANGED <<activeConnections, conn, proc, log, handlers, upstream, http, disk, cli, front, retry>>

\* cli.js:539-541  the status command.
StatusCommand ==
    /\ os.pc = "idle"
    /\ os' = [showStatus(os) EXCEPT !.last = "status"]
    /\ UNCHANGED <<activeConnections, conn, proc, log, handlers, upstream, http, disk, cli, front, retry>>

\* server.js:385-402  a daemon server exits: after SIGTERM, or on its own.
ServerExit(pid) ==
    /\ pid \in os.running
    /\ os' = [os EXCEPT !.running = @ \ {pid}, !.signalled = @ \ {pid}, !.last = "exit"]
    /\ UNCHANGED <<activeConnections, conn, proc, log, handlers, upstream, http, disk, cli, front, retry>>

\* ------------------------------------------------------ ChatUtils.retry
\* part_000:549-553  the loop test holds and fn is called: when it resolves,
\* retry returns its value.
RetryCallOk(outcome) ==
    /\ retry.pc = "loop"
    /\ retry.i < retry.maxRetries
    /\ outcome.ok
    /\ retry' = [retry EXCEPT !.pc = "returned", !.result = <<outcome.value>>,
                              !.calls = Append(@, outcome)]
    /\ UNCHANGED <<activeConnections, conn, proc, log, handlers, upstream, http, disk, cli, front, os>>

\* part_000:549-560  the loop test holds and fn is called: when it rejects,
\* the error is kept and, unless this was the last round, a wait of
\* initialDelay * 2^i begins; otherwise the loop goes on.
RetryCallFails(outcome) ==
    /\ retry.pc = "loop"
    /\ retry.i < retry.maxRetries
    /\ ~outcome.ok
    /\ LET r == [retry EXCEPT !.lastError = <<outcome.value>>,
                              !.calls = Append(@, outcome)]
       IN retry' = IF WaitsAfter(retry.i, retry.maxRetries)
                   THEN [r EXCEPT !.pc = "sleep",
                                  !.sleeps = Append(@, retry.initialDelay * Pow2(retry.i))]
                   ELSE [r EXCEPT !.i = @ + 1]
    /\ UNCHANGED <<activeConnections, conn, proc, log, handlers, upstream, http, disk, cli, front, os>>

\* part_000:536-538,557  the wait is over: the next round.
RetryWake ==
    /\ retry.pc = "sleep"
    /\ retry' = [retry EXCEPT !.pc = "loop", !.i = @ + 1]
    /\ UNCHANGED <<activeConnections, conn, proc, log, handlers, upstream, http, disk, cli, front, os>>

\* part_000:549,562  the loop test fails: throw lastError.
RetryThrow ==
    /\ retry.pc = "loop"
    /\ ~(retry.i < retry.maxRetries)
    /\ retry' = [retry EXCEPT !.pc = "thrown", !.result = retry.lastError]
    /\ UNCHANGED <<activeConnections, conn, proc, log, handlers, upstream, http, disk, cli, front, os>>

\* ------------------------------------------- the frontend: the connection
\* README.md:502-522  connectWebSocket: new WebSocket(wsUrl).
connectWebSocket(f) == [f EXCEPT !.ws = "connecting"]

\* README.md:427-436  initializeConnection, the server being healthy.
FrontConnect ==
    /\ front.ws = "none"
    /\ front' = connectWebSocket(front)
    /\ UNCHANGED <<activeConnections, conn, proc, log, handlers, upstream, http, disk, cli, os, retry>>

\* The same without the reset of the attempt counter.
OnOpenNoReset ==
    /\ front.ws = "connecting"
    /\ front' = [front EXCEPT !.ws = "open", !.isConnected = TRUE,
                              !.delays = <<>>, !.opens = @ + 1]
    /\ UNCHANGED <<activeConnections, conn, proc, log, handlers, upstream, http, disk, cli, os, retry>>

\* README.md:525-531  ws.onopen
OnOpen ==
    /\ front.ws = "connecting"
    /\ front' = [front EXCEPT !.ws = "open", !.isConnected = TRUE,
                              !.reconnectAttempts = 0,
                              !.delays = <<>>, !.opens = @ + 1]
    /\ UNCHANGED <<activeConnections, conn, proc, log, handlers, upstream, http, disk, cli, os, retry>>

Min(a, b) == IF a <= b THEN a ELSE b

\* README.md:537-555  ws.onclose with the given close code: an abnormal close
\* below the attempt limit counts an attempt and sets the reconnect timeout.
\* A socket that never opened closes abnormally.
OnClose(code) ==
    /\ front.ws \in {"connecting", "open"}
    /\ front.ws = "connecting" => code # NormalClosure
    /\ IF code # NormalClosure /\ front.reconnectAttempts < maxReconnectAttempts
       THEN LET attempts == front.reconnectAttempts + 1
                delay == Min(ReconnectStep * attempts, ReconnectCap)
            IN front' = [front EXCEPT !.ws = "closed", !.isConnected = FALSE,
                                      !.lastCode = code, !.pending = {},
                                      !.reconnectAttempts = attempts,
                                      !.timer = delay, !.delays = Append(@, delay)]
       ELSE front' = [front EXCEPT !.ws = "closed", !.isConnected = FALSE,
                                   !.lastCode = code, !.pending = {}]
    /\ UNCHANGED <<activeConnections, conn, proc, log, handlers, upstream, http, disk, cli, os, retry>>

\* README.md:548-552  the reconnect timeout fires.
ReconnectTimeout ==
    /\ front.timer # 0
    /\ front' = IF ~front.isConnected
                THEN connectWebSocket([front EXCEPT !.timer = 0])
                ELSE [front EXCEPT !.timer = 0]
    /\ UNCHANGED <<activeConnections, conn, proc, log, handlers, upstream, http, disk, cli, os, retry>>

\* ---------------------------------------------- the frontend: the messages
\* this.chats.get(this.currentChatId) is a chat.
HasChat(f) == f.currentChatId \in DOMAIN f.chats

\* README.md:810-817  saveChats()
saveChats(f) == [f EXCEPT !.chatHistory = f.chats]

\* README.md:1050-1077  addMessage(role, content, id): without a current chat
\* nothing; otherwise push on the current chat, then saveChats().
addMessage(f, role, content, id) ==
    IF ~HasChat(f) THEN f
    ELSE saveChats([f EXCEPT !.chats[f.currentChatId] =
                        Append(@, [id |-> id, role |-> role, content |-> content])])

\* README.md:1079-1092  updateMessageContent: the first message of the
\* current chat with the id gets the content, then saveChats().
updateMessageContent(f, id, content) ==
    IF ~HasChat(f) THEN f
    ELSE LET messages == f.chats[f.currentChatId]
         IN IF \E i \in DOMAIN messages : messages[i].id = id
            THEN LET i == CHOOSE k \in DOMAIN messages :
                             /\ messages[k].id = id
                             /\ \A j \in 1..(k - 1) : messages[j].id # id
                 IN saveChats([f EXCEPT !.chats[f.currentChatId][i].content = content])
            ELSE f

\* README.md:986-992,1029-1043  the reset of the generation state.
ResetGeneration(f) ==
    [f EXCEPT !.isGenerating = FALSE, !.typingMessageId = 0, !.typingGen = 0]

\* README.md:890-950  sendMessage with a message typed.  While generating it
\* returns at once.  The user message is added and isGenerating set; without
\* a current chat it returns there.  Over an open socket the empty bot
\* message is added and the chat payload sent, otherwise the bot message says
\* Thinking... and POST /api/chat is issued.  Both ids are
\* `msg_${Date.now()}`; elapsed: the milliseconds between the two readings
\* of the clock.
sendMessage(f, text, elapsed) ==
    IF f.isGenerating THEN f
    ELSE IF ~HasChat(f) THEN [f EXCEPT !.isGenerating = TRUE]
    ELSE LET userId == f.now
             messageId == f.now + elapsed
             f1 == addMessage(f, "user", <<text>>, userId)
             streaming == f1.ws = "open" /\ f1.isConnected
             f2 == addMessage(f1, "bot", IF streaming THEN <<>> ELSE <<"Thinking...">>,
                              messageId)
             g == f.requests + 1
         IN [f2 EXCEPT !.isGenerating = TRUE,
                       !.typingMessageId = messageId,
                       !.accumulatedContent =
                           IF streaming THEN MapSet(@, messageId, <<>>) ELSE @,
                       !.fetches = IF streaming THEN @ ELSE @ \cup {[id |-> messageId, gen |-> g]},
                       !.now = messageId + 1,
                       !.requests = g,
                       !.typingGen = g,
                       !.at = MapSet(@, g, <<f.currentChatId, Len(f2.chats[f.currentChatId])>>),
                       !.pending = IF streaming THEN @ \cup {g} ELSE @,
                       !.open = @ \cup {g},
                       !.received = MapSet(@, g, <<>>),
                       !.shown = MapSet(@, g, <<>>)]

\* README.md:326-336  the send button or the Enter key.
SendMessage(text, elapsed) ==
    /\ ~front.isGenerating
    /\ front' = [sendMessage(front, text, elapsed) EXCEPT !.sends = @ + 1]
    /\ UNCHANGED <<activeConnections, conn, proc, log, handlers, upstream, http, disk, cli, os, retry>>

\* README.md:962-972  POST /api/chat of request x answers ok with a response.
FetchChatOk(x, response) ==
    /\ x \in front.fetches
    /\ front' = [ResetGeneration(updateMessageContent(front, x.id, response))
                    EXCEPT !.fetches = @ \ {x}, !.open = @ \ {x.gen}]
    /\ UNCHANGED <<activeConnections, conn, proc, log, handlers, upstream, http, disk, cli, os, retry>>

\* README.md:958-960,975-992  POST /api/chat of request x fails or answers an
\* error status: the catch adds an error message and resets.
FetchChatFailed(x) ==
    /\ x \in front.fetches
    /\ front' = [ResetGeneration(addMessage(front, "bot", <<"I encountered an error">>,
                                            front.now))
                    EXCEPT !.fetches = @ \ {x}, !.open = @ \ {x.gen},
                           !.accumulatedContent = EmptyMap, !.now = @ + 1]
    /\ UNCHANGED <<activeConnections, conn, proc, log, handlers, upstream, http, disk, cli, os, retry>>

\* README.md:606-618  accumulateToken(messageId, token)
accumulateToken(f, messageId, token) ==
    LET current == IF messageId \in DOMAIN f.accumulatedContent
                   THEN f.accumulatedContent[messageId] ELSE <<>>
    IN [f EXCEPT !.accumulatedContent = MapSet(@, messageId, current \o <<token>>)]

\* README.md:678-696  finalizeStream: the pending content is rendered; the
\* accumulators are cleared and the generation state reset.
finalizeStream(f) ==
    [ResetGeneration(f) EXCEPT !.accumulatedContent = EmptyMap]

\* README.md:1018-1048  stopGeneration: a stop frame is sent over an open
\* socket, which the server drops (server.js:180); the accumulators are
\* cleared and the generation state reset.
stopGeneration(f) ==
    [ResetGeneration(f) EXCEPT !.accumulatedContent = EmptyMap,
                               !.open = @ \ {f.typingGen}]

\* README.md:338  the stop button, enabled while generating.
StopGeneration ==
    /\ front.isGenerating
    /\ front' = stopGeneration(front)
    /\ UNCHANGED <<activeConnections, conn, proc, log, handlers, upstream, http, disk, cli, os, retry>>

\* The frames the server sends.
ServerFrames ==
    { [type |-> "token", token |-> "a"], [type |-> "token", token |-> "b"],
      [type |-> "done", token |-> ""], [type |-> "error", token |-> ""],
      [type |-> "ping", token |-> ""] }

\* server.js:196-233  the frames of a generation.
GenerationFrames == {"token", "done", "error"}

\* server.js:196-233  what the server may send on the socket: a frame of a
\* generation g that was requested on it and has not ended (the frame names
\* no generation), or a frame of no generation (g = 0).
MaySend(f, data, g) ==
    IF data.type \in GenerationFrames THEN g \in f.pending ELSE g = 0

\* README.md:533-535,571-603  ws.onmessage: handleWebSocketMessage of a frame
\* that belongs to generation g.
OnMessage(data, g) ==
    /\ front.ws = "open"
    /\ MaySend(front, data, g)
    /\ LET f == [front EXCEPT !.frames = @ + 1]
       IN front' =
            CASE data.type = "token" ->
                   LET f1 == [f EXCEPT !.received[g] = @ \o <<data.token>>]
                   IN IF f.typingMessageId # 0
                      THEN [accumulateToken(f1, f.typingMessageId, data.token)
                              EXCEPT !.shown[f.typingGen] = @ \o <<g>>]
                      ELSE f1
              [] data.type = "done" ->
                   [finalizeStream(f) EXCEPT !.finished = @ \cup {g},
                                             !.pending = @ \ {g}, !.open = @ \ {g}]
              [] data.type = "error" ->
                   [ResetGeneration(f) EXCEPT !.pending = @ \ {g}, !.open = @ \ {g}]
              [] OTHER -> f
    /\ UNCHANGED <<activeConnections, conn, proc, log, handlers, upstream, http, disk, cli, os, retry>>

\* ------------------------------------------------- the frontend: the chats
\* README.md:730-772  createNewChat(): the new chat is added, saved and
\* selected.
createNewChat(f) ==
    LET chatId == f.created + 1
    IN [saveChats([f EXCEPT !.chats = MapSet(@, chatId, <<>>), !.created = chatId])
          EXCEPT !.currentChatId = chatId]

\* README.md:819-843  switchChat(chatId): not while generating, and only to a
\* chat of the collection.
switchChat(f, chatId) ==
    IF f.isGenerating THEN f
    ELSE IF chatId \notin DOMAIN f.chats THEN f
    ELSE [f EXCEPT !.currentChatId = chatId]

\* Array.from(this.chats.keys())[0]: the chat inserted first.
FirstChat(f) == CHOOSE k \in DOMAIN f.chats : \A j \in DOMAIN f.chats : k <= j

\* README.md:845-871  deleteChat(chatId), confirmed: never the only chat;
\* when the current chat is deleted, switchChat to the first one left.
deleteChat(f, chatId) ==
    IF chatId \notin DOMAIN f.chats THEN f
    ELSE IF Cardinality(DOMAIN f.chats) <= 1 THEN f
    ELSE LET f1 == saveChats([f EXCEPT !.chats = MapDelete(@, chatId)])
         IN IF f.currentChatId = chatId THEN switchChat(f1, FirstChat(f1)) ELSE f1

\* README.md:873-885  clearChatHistory(), confirmed.
clearChatHistory(f) ==
    IF DOMAIN f.chats = {} THEN f
    ELSE createNewChat([f EXCEPT !.chats = EmptyMap])

\* README.md:1857-1888  regenerateResponse of the i-th message of the current
\* chat: not while generating; the messages after it are dropped; a bot
\* message is dropped too and the user message before it sent again.
regenerateResponse(f, i, elapsed) ==
    IF f.isGenerating THEN f
    ELSE IF ~HasChat(f) THEN f
    ELSE IF i \notin DOMAIN f.chats[f.currentChatId] THEN f
    ELSE LET messages == f.chats[f.currentChatId]
             kept == SubSeq(messages, 1, i)
         IN IF messages[i].role = "bot"
            THEN LET f1 == saveChats([f EXCEPT !.chats[f.currentChatId] =
                                                  SubSeq(kept, 1, i - 1)])
                 IN IF i > 1 /\ messages[i - 1].role = "user"
                    THEN sendMessage(f1, messages[i - 1].content[1], elapsed)
                    ELSE f1
            ELSE [f EXCEPT !.chats[f.currentChatId] = kept]

CreateNewChat ==
    /\ front' = createNewChat(front)
    /\ UNCHANGED <<activeConnections, conn, proc, log, handlers, upstream, http, disk, cli, os, retry>>

SwitchChat(chatId) ==
    /\ front' = switchChat(front, chatId)
    /\ UNCHANGED <<activeConnections, conn, proc, log, handlers, upstream, http, disk, cli, os, retry>>

DeleteChat(chatId) ==
    /\ front' = deleteChat(front, chatId)
    /\ UNCHANGED <<activeConnections, conn, proc, log, handlers, upstream, http, disk, cli, os, retry>>

ClearChatHistory ==
    /\ front' = clearChatHistory(front)
    /\ UNCHANGED <<activeConnections, conn, proc, log, handlers, upstream, http, disk, cli, os, retry>>

RegenerateResponse(i, elapsed) ==
    /\ front' = regenerateResponse(front, i, elapsed)
    /\ UNCHANGED <<activeConnections, conn, proc, log, handlers, upstream, http, disk, cli, os, retry>>

\* ------------------------------------------- the registry and the heartbeat
\* What Math.random() may give.
Randoms == 1..NRandoms

\* A millisecond passes.
ClockTick ==
    /\ proc' = [proc EXCEPT !.now = @ + 1]
    /\ UNCHANGED <<activeConnections, conn, log, handlers, upstream, http, disk, cli, front, os, retry>>

\* The closing handshake of connection c starts (a close frame arrives, or
\* the server called ws.close()): readyState is CLOSING until 'close' is
\* emitted.
WsClosing(c) ==
    /\ conn[c].readyState = "OPEN"
    /\ conn' = [conn EXCEPT ![c].readyState = "CLOSING"]
    /\ UNCHANGED <<activeConnections, proc, log, handlers, upstream, http, disk, cli, front, os, retry>>

CloseEv == Ev("event", "close", 0, <<>>, NoMsg)

\* The same, were the second listener missing: the timer goes on.
CloseKeepsTimer(c) == conn[c].timer

\* server.js:253-255  the second 'close' listener: clearInterval.
ClearInterval(c) == FALSE

\* server.js:237-240,253-255  'close' is emitted on connection c: both
\* listeners run, the first deletes the entry under the connection's
\* clientId, the second cancels its timer.
WsClose(c) ==
    /\ conn[c].readyState \in {"OPEN", "CLOSING"}
    /\ activeConnections' = MapDelete(activeConnections, conn[c].clientId)
    /\ conn' = [conn EXCEPT ![c].readyState = "CLOSED", ![c].timer = ClearInterval(c)]
    /\ log' = SendAll(log, c, <<CloseEv>>)
    /\ UNCHANGED <<proc, handlers, upstream, http, disk, cli, front, os, retry>>

PingEv == Ev("out", "ping", 0, <<>>, NoMsg)

\* The same without the test of readyState.
PingAlways(c) == <<PingEv>>

\* server.js:248-250  if (ws.readyState === ws.OPEN) ws.send(ping)
PingIfOpen(c) == IF conn[c].readyState = "OPEN" THEN <<PingEv>> ELSE <<>>

\* server.js:247-251  the heartbeat timer of connection c fires.
HeartbeatTick(c) ==
    /\ conn[c].timer
    /\ log' = SendAll(log, c, PingIfOpen(c))
    /\ conn' = [conn EXCEPT ![c].ticks = @ + 1]
    /\ UNCHANGED <<activeConnections, proc, handlers, upstream, http, disk, cli, front, os, retry>>

\* server.js:259-276  app.get('/api/health'): llama is always 'running',
\* websocket.connected is the size of the registry.
Health ==
    /\ proc' = [proc EXCEPT !.health = Append(@,
                    [status |-> "ok", llama |-> "running",
                     connected |-> Cardinality(DOMAIN activeConnections)])]
    /\ UNCHANGED <<activeConnections, conn, log, handlers, upstream, http, disk, cli, front, os, retry>>

\* ------------------------------------------------------------ the process
\* The server process once the module has been evaluated, for both outcomes
\* of the spawn: the child runs, or the binary could not be started and the
\* ChildProcess has its 'error' event pending on the next tick.
InitProcess ==
    /\ activeConnections = EmptyMap
    /\ conn = ConnInit
    /\ \E child \in {"running", "spawnFailed"} : proc = ProcInit(child)
    /\ log = [c \in Conns |-> <<>>]
    /\ handlers = <<>>
    /\ upstream = <<>>
    /\ http = <<>>
    /\ disk = DiskInit
    /\ cli = CliIdle
    /\ front = FrontInit
    /\ os = OsInit
    /\ retry = RetryIdle

\* A process.nextTick callback is queued: it runs before any I/O event.
PendingTick == proc.server = "running" /\ proc.child = "spawnFailed"

\* The event loop takes I/O events: requests, frames, timers, signals.
Serving == proc.server = "running" /\ ~PendingTick

\* The same, had llamaProcess an 'error' listener that logs: the server goes
\* on without its child.
SpawnErrorLogged ==
    /\ PendingTick
    /\ proc' = [proc EXCEPT !.child = "failed", !.logged = @ \cup {"spawnError"}]
    /\ UNCHANGED <<activeConnections, conn, log, handlers, upstream, http, disk, cli, front, os, retry>>

\* server.js:123-144  the 'error' event of llamaProcess is emitted; there is
\* no listener for it, so the EventEmitter throws and the uncaught exception
\* ends the process.  Nothing spawns again.
SpawnError ==
    /\ PendingTick
    /\ proc' = [proc EXCEPT !.child = "failed", !.server = "crashed",
                            !.events = @ \o <<"uncaughtException">>]
    /\ UNCHANGED <<activeConnections, conn, log, handlers, upstream, http, disk, cli, front, os, retry>>

\* server.js:134-144  the child writes on stdout or stderr: logged.
ChildOutput(stream) ==
    /\ proc.child = "running"
    /\ proc' = [proc EXCEPT !.logged = @ \cup {stream}]
    /\ UNCHANGED <<activeConnections, conn, log, handlers, upstream, http, disk, cli, front, os, retry>>

\* server.js:123-144  the child exits by itself.  llamaProcess has no 'exit'
\* or 'close' listener: nothing runs in the server.
ChildExit ==
    /\ proc.child = "running"
    /\ proc' = [proc EXCEPT !.child = "exited"]
    /\ UNCHANGED <<activeConnections, conn, log, handlers, upstream, http, disk, cli, front, os, retry>>

\* llamaProcess.kill(): SIGTERM to the child if it still runs.
Kill(child) == IF child = "running" THEN "killed" ELSE child

\* ws.close() on an open socket starts the closing handshake.
CloseSocket(state) == IF state = "OPEN" THEN "CLOSING" ELSE state

\* server.js:385-396  SIGTERM: kill the child, close every connection of the
\* registry, exit.
Sigterm ==
    /\ proc' = [proc EXCEPT !.child = Kill(@), !.server = "exited",
                            !.logged = @ \cup {"Shutting down"},
                            !.events = @ \o <<"SIGTERM", "kill", "closeAll", "exit">>]
    /\ conn' = [c \in Conns |->
                  IF \E id \in DOMAIN activeConnections : activeConnections[id] = c
                  THEN [conn[c] EXCEPT !.readyState = CloseSocket(@)]
                  ELSE conn[c]]
    /\ UNCHANGED <<activeConnections, log, handlers, upstream, http, disk, cli, front, os, retry>>

\* The same without the kill.
SigintNoKill ==
    /\ proc' = [proc EXCEPT !.server = "exited",
                            !.logged = @ \cup {"Interrupted"},
                            !.events = @ \o <<"SIGINT", "exit">>]
    /\ UNCHANGED <<activeConnections, conn, log, handlers, upstream, http, disk, cli, front, os, retry>>

\* server.js:398-402  SIGINT: kill the child, exit.
Sigint ==
    /\ proc' = [proc EXCEPT !.child = Kill(@), !.server = "exited",
                            !.logged = @ \cup {"Interrupted"},
                            !.events = @ \o <<"SIGINT", "kill", "exit">>]
    /\ UNCHANGED <<activeConnections, conn, log, handlers, upstream, http, disk, cli, front, os, retry>>

\* ------------------------------------------------------------------- Next
\* The streaming relay.  The connections draw distinct identifiers.
Next ==
    \/ \E c \in Conns : WsConnect(c, c)
    \/ \E c \in Conns, frame \in ClientFrames :
          NumRequests < MaxReqs /\ WsMessage(c, frame)
    \/ \E g \in DOMAIN handlers : FetchRefused(g)
    \/ \E g \in DOMAIN handlers, status \in ErrorStatuses : FetchNotOk(g, status)
    \/ \E g \in DOMAIN handlers, kinds \in Bodies(MaxLines - LinesUsed) : FetchOk(g, kinds)
    \/ \E g \in DOMAIN handlers, n \in 1..(4 * MaxLines) : ReadChunk(g, n)
    \/ \E g \in DOMAIN handlers : ReadDone(g)
    \/ \E g \in DOMAIN handlers : ReadError(g)

Spec == Init /\ [][Next]_vars

\* The HTTP API layer: it shares no state with the relay.
NextHttp ==
    \/ \E message \in {<<>>, <<"hi">>}, maxTokens \in {<<>>, <<0>>, <<10>>},
          temperature \in {<<>>, <<5>>} :
          Len(http) < MaxPosts /\ HttpChat(message, maxTokens, temperature)
    \/ \E h \in DOMAIN http : HttpFetchRefused(h)
    \/ \E h \in DOMAIN http, r \in HttpReplies : HttpFetchReply(h, r)

SpecHttp == Init /\ [][NextHttp]_vars

\* A chat frame with its message.
ChatFrame == Frame(TRUE, "chat", <<"hi">>, <<>>, <<>>)

\* The registry: accepts at any time with any random draw, closes, heartbeat
\* ticks and health requests, around one generation.
NextRegistry ==
    \/ proc.now < MaxTime /\ ClockTick
    \/ \E c \in Conns, random \in Randoms : WsConnect(c, random)
    \/ \E c \in Conns : WsClosing(c)
    \/ \E c \in Conns : WsClose(c)
    \/ \E c \in Conns : conn[c].ticks < MaxTicks /\ HeartbeatTick(c)
    \/ Len(proc.health) < MaxHealth /\ Health
    \/ \E c \in Conns :
          NumRequests < MaxLifeReqs /\ WsMessage(c, ChatFrame)
    \/ \E g \in DOMAIN handlers : FetchOk(g, <<"T", "D">>)
    \/ \E g \in DOMAIN handlers : ReadChunk(g, Len(handlers[g].stream))
    \/ \E g \in DOMAIN handlers : ReadDone(g)

SpecRegistry == Init /\ [][NextRegistry]_vars

\* The process: the spawn and its failure, the child's output and exit, the
\* signals, around the serving of connections, generations and requests.
\* The connections draw distinct identifiers.
NextProcess ==
    \/ SpawnError
    \/ \E stream \in {"stdout", "stderr"} : Serving /\ ChildOutput(stream)
    \/ Serving /\ ChildExit
    \/ Serving /\ Sigterm
    \/ Serving /\ Sigint
    \/ \E c \in Conns : Serving /\ WsConnect(c, c)
    \/ \E c \in Conns : Serving /\ WsClosing(c)
    \/ \E c \in Conns : Serving /\ WsClose(c)
    \/ \E c \in Conns : Serving /\ NumRequests < MaxLifeReqs /\ WsMessage(c, ChatFrame)
    \/ \E g \in DOMAIN handlers : Serving /\ FetchRefused(g)
    \/ \E g \in DOMAIN handlers :
          Serving /\ proc.child = "running" /\ FetchOk(g, <<"T", "D">>)
    \/ \E g \in DOMAIN handlers : Serving /\ ReadChunk(g, Len(handlers[g].stream))
    \/ \E g \in DOMAIN handlers : Serving /\ ReadDone(g)
    \/ \E g \in DOMAIN handlers : Serving /\ ReadError(g)
    \/ Serving /\ Len(proc.health) < MaxHealth /\ Health
    \/ Serving /\ Len(http) < MaxLifeReqs /\ HttpChat(<<"hi">>, <<>>, <<>>)
    \/ \E h \in DOMAIN http : Serving /\ HttpFetchRefused(h)
    \/ \E h \in DOMAIN http, r \in HttpReplies :
          Serving /\ proc.child = "running" /\ HttpFetchReply(h, r)

SpecProcess == InitProcess /\ [][NextProcess]_vars

\* The chat frames a client may send: maxTokens and temperature absent, 0 or
\* another number.
ParamFrames ==
    { Frame(TRUE, "chat", <<"hi">>, maxTokens, temperature) :
        maxTokens \in {<<>>, <<0>>, <<50>>}, temperature \in {<<>>, <<0>>, <<10>>} }

\* The parameters of the generations: chat frames with every choice of
\* parameters, and the generations they start.
NextParams ==
    \/ \E c \in Conns : WsConnect(c, c)
    \/ \E c \in Conns, frame \in ParamFrames :
          NumRequests < MaxReqs /\ WsMessage(c, frame)
    \/ \E g \in DOMAIN handlers : FetchOk(g, <<"T", "D">>)
    \/ \E g \in DOMAIN handlers : ReadChunk(g, Len(handlers[g].stream))
    \/ \E g \in DOMAIN handlers : ReadDone(g)

SpecParams == Init /\ [][NextParams]_vars

\* The listing of the models.
NextModels ==
    \/ Len(proc.models) < MaxLists /\ GetModels

SpecModels == InitModels /\ [][NextModels]_vars

\* The launcher.
NextCli ==
    \/ CliMain
    \/ StartAsDaemon
    \/ StartInForeground
    \/ ForegroundSpawn
    \/ \E i \in DOMAIN cli.servers : ServerBoot(i)

SpecCli == InitCli /\ [][NextCli]_vars

\* The frontend: opens, closes of both kinds and reconnects of its socket,
\* messages sent by the user, frames and HTTP answers received.
NextFront ==
    \/ FrontConnect
    \/ front.opens < MaxOpens /\ OnOpen
    \/ \E code \in CloseCodes : OnClose(code)
    \/ ReconnectTimeout
    \/ \E elapsed \in {0, 1} : front.sends < MaxSends /\ SendMessage("hi", elapsed)
    \/ \E data \in ServerFrames, g \in 0..MaxSends :
          front.frames < MaxFrames /\ OnMessage(data, g)
    \/ \E x \in front.fetches : FetchChatOk(x, <<"hello">>)
    \/ \E x \in front.fetches : FetchChatFailed(x)

SpecFront == Init /\ [][NextFront]_vars

\* The frontend starts with its chat selected or, having found a chat in
\* localStorage, with none selected.
InitChats ==
    /\ activeConnections = EmptyMap
    /\ conn = ConnInit
    /\ proc = ProcInit("running")
    /\ log = [c \in Conns |-> <<>>]
    /\ handlers = <<>>
    /\ upstream = <<>>
    /\ http = <<>>
    /\ disk = DiskInit
    /\ cli = CliIdle
    /\ front \in {FrontInit, FrontLoaded}
    /\ os = OsInit
    /\ retry = RetryIdle

\* The frontend's chats: chats created, selected, deleted and cleared around
\* a message sent, answered or stopped.
NextChats ==
    \/ FrontConnect
    \/ front.opens < 1 /\ OnOpen
    \/ \E elapsed \in {0, 1} : front.sends < MaxSends /\ SendMessage("hi", elapsed)
    \/ StopGeneration
    \/ \E data \in ServerFrames, g \in 0..MaxSends :
          front.frames < MaxSends /\ OnMessage(data, g)
    \/ \E x \in front.fetches : FetchChatOk(x, <<"hello">>)
    \/ front.created <= MaxChats /\ CreateNewChat
    \/ \E chatId \in 1..(MaxChats + 1) : SwitchChat(chatId)
    \/ \E chatId \in 1..(MaxChats + 1) : DeleteChat(chatId)
    \/ front.created <= MaxChats /\ ClearChatHistory

SpecChats == InitChats /\ [][NextChats]_vars

\* One chat over one socket: messages sent, regenerated and stopped, and the
\* frames of their generations.
NextStream ==
    \/ FrontConnect
    \/ front.opens < 1 /\ OnOpen
    \/ front.requests < MaxChatReqs /\ SendMessage("hi", 1)
    \/ \E i \in 1..2 : front.requests < MaxChatReqs /\ RegenerateResponse(i, 1)
    \/ StopGeneration
    \/ \E data \in ServerFrames, g \in 0..MaxChatReqs :
          front.frames < MaxFrames /\ OnMessage(data, g)

SpecStream == Init /\ [][NextStream]_vars

\* The arguments of a call of retry: each given or left out.
RetryArgs ==
    [maxRetries : {<<>>} \cup {<<n>> : n \in 0..MaxRetries},
     initialDelay : {<<>>, <<250>>}]

\* A call of ChatUtils.retry has just been made.
InitRetry ==
    /\ activeConnections = EmptyMap
    /\ conn = ConnInit
    /\ proc = ProcInit("running")
    /\ log = [c \in Conns |-> <<>>]
    /\ handlers = <<>>
    /\ upstream = <<>>
    /\ http = <<>>
    /\ disk = DiskInit
    /\ cli = CliIdle
    /\ front = FrontInit
    /\ os = OsInit
    /\ \E args \in RetryArgs :
          retry = RetryState("loop", ArgOrDefault(args.maxRetries, DefaultMaxRetries),
                             ArgOrDefault(args.initialDelay, DefaultInitialDelay))

NextRetry ==
    \/ \E outcome \in FnOutcomes : RetryCallOk(outcome)
    \/ \E outcome \in FnOutcomes : RetryCallFails(outcome)
    \/ RetryWake
    \/ RetryThrow

SpecRetry == InitRetry /\ [][NextRetry]_vars

\* The launcher's commands in any order, and the exits of the servers.
NextDaemon ==
    \/ os.spawned < MaxStarts /\ StartCommand
    \/ StopCommand
    \/ RestartCommand
    \/ os.spawned < MaxStarts /\ RestartStart
    \/ StatusCommand
    \/ \E pid \in 1..MaxStarts : ServerExit(pid)

SpecDaemon == Init /\ [][NextDaemon]_vars

\* ================================================================= claims
\* What connection c was sent by handler invocation g, in order.
Out(c, g) == SelectSeq(log[c], LAMBDA e : e.dir = "out" /\ e.gen = g)

Terminal(e) == e.dir = "out" /\ e.type \in {"done", "error"}

Terminals(c, g) == SelectSeq(log[c], LAMBDA e : Terminal(e) /\ e.gen = g)

\* The events a response whose lines are of the given kinds stands for: one
\* token per line that carries text, one done per sentinel line.
RECURSIVE ExpectedFrom(_, _, _)
ExpectedFrom(kinds, g, i) ==
    IF i > Len(kinds) THEN <<>>
    ELSE (CASE kinds[i] = "T" -> <<TokenEv(g, TokenText(g, i))>>
            [] kinds[i] = "D" -> <<DoneEv(g)>>
            [] OTHER -> <<>>) \o ExpectedFrom(kinds, g, i + 1)

Expected(kinds, g) == ExpectedFrom(kinds, g, 1)

\* The response ends with the sentinel line and holds no other sentinel.
EndsWithSentinel(kinds) ==
    /\ kinds # <<>>
    /\ kinds[Len(kinds)] = "D"
    /\ \A i \in 1..(Len(kinds) - 1) : kinds[i] # "D"

\* C1: when the upstream stream ends with the sentinel and has been read to
\* its end, the connection was sent one token per line that carries text, in
\* the order of the lines, and then exactly one done.
C1_TokensInOrderThenDone ==
    \A g \in DOMAIN handlers :
        (handlers[g].outcome = "eof" /\ EndsWithSentinel(handlers[g].kinds))
            => Out(handlers[g].conn, g) = Expected(handlers[g].kinds, g)

\* C2: a chat request never has two terminal events (done or error) on its
\* connection, and has exactly one once its handler has returned, which it
\* does when the upstream response has ended.
C2_ExactlyOneTerminal ==
    \A g \in DOMAIN handlers :
        /\ Len(Terminals(handlers[g].conn, g)) <= 1
        /\ handlers[g].pc = "ended" => Len(Terminals(handlers[g].conn, g)) = 1

\* C3: once a stop frame of a connection has been handled, no token of a
\* generation that was started before it on that connection is sent.
C3_NoTokenAfterStop ==
    \A c \in Conns : \A i, j, k \in DOMAIN log[c] :
        ~ /\ k < i /\ i < j
          /\ log[c][k].dir = "in" /\ log[c][k].type = "chat"
          /\ log[c][i].dir = "in" /\ log[c][i].type = "stop"
          /\ log[c][j].dir = "out" /\ log[c][j].type = "token"
          /\ log[c][j].gen = log[c][k].gen

\* The generations in flight on connection c: the chat handlers that have
\* not returned.
Active(c) == {g \in DOMAIN handlers : handlers[g].conn = c /\ handlers[g].pc # "ended"}

\* C4: a connection has at most one generation in flight.
C4_OneActiveGeneration ==
    \A c \in Conns : Cardinality(Active(c)) <= 1

\* C5: after the done of a generation, no token and no second done of that
\* generation is sent.
C5_NothingAfterDone ==
    \A c \in Conns : \A i, j \in DOMAIN log[c] :
        (i < j /\ log[c][i].dir = "out" /\ log[c][i].type = "done")
            => ~ /\ log[c][j].dir = "out"
                 /\ log[c][j].type \in {"token", "done"}
                 /\ log[c][j].gen = log[c][i].gen

\* C6: every token sent on a connection carries a text of the upstream
\* response to a chat request that was received on that same connection.
C6_TokensStayOnTheirConnection ==
    \A c \in Conns : \A j \in DOMAIN log[c] :
        (log[c][j].dir = "out" /\ log[c][j].type = "token")
            => LET g == log[c][j].token[1]
                   i == log[c][j].token[2]
               IN /\ g \in DOMAIN handlers
                  /\ i \in DOMAIN handlers[g].kinds
                  /\ handlers[g].kinds[i] = "T"
                  /\ \E k \in 1..(j - 1) :
                        log[c][k] = Ev("in", "chat", g, <<>>, NoMsg)

\* Two generations are being read at once on two connections and each
\* connection has been sent a token.
C6_Witness ==
    \E g1, g2 \in DOMAIN handlers :
        /\ handlers[g1].conn # handlers[g2].conn
        /\ handlers[g1].pc = "read" /\ handlers[g2].pc = "read"
        /\ Out(handlers[g1].conn, g1) # <<>>
        /\ Out(handlers[g2].conn, g2) # <<>>

\* C7: a generation whose upstream read failed has sent exactly one error,
\* carrying the failure's message, as the last thing it sent, and is over.
C7_ReadErrorReported ==
    \A g \in DOMAIN handlers :
        handlers[g].outcome = "readError"
            => LET o == Out(handlers[g].conn, g)
               IN /\ handlers[g].pc = "ended"
                  /\ o # <<>>
                  /\ o[Len(o)] = ErrorEv(g, ReadFailedMsg)
                  /\ Len(SelectSeq(o, LAMBDA e : e.type = "error")) = 1

\* A read failed after a token was forwarded, and a later chat on the same
\* connection has had a token forwarded after the error.
C7_Witness ==
    \E g, g2 \in DOMAIN handlers :
        /\ g < g2
        /\ handlers[g].conn = handlers[g2].conn
        /\ handlers[g].outcome = "readError"
        /\ Len(Out(handlers[g].conn, g)) = 2
        /\ Out(handlers[g2].conn, g2) # <<>>

\* The events of the well-formed lines among the given lines: a sentinel
\* line stands for done, a line whose payload is a whole JSON object with a
\* text stands for its token, any other line for nothing.
RECURSIVE WellFormedEvents(_, _)
WellFormedEvents(lines, g) ==
    IF lines = <<>> THEN <<>>
    ELSE LET l == Head(lines)
             ev == IF l = <<DataPrefix, Sentinel>> THEN <<DoneEv(g)>>
                   ELSE IF /\ Len(l) = 3 /\ l[1] = DataPrefix /\ l[3] = JsonClose
                           /\ l[2].sym = "{content:" /\ l[2].txt # <<>>
                        THEN <<TokenEv(g, l[2].txt)>>
                        ELSE <<>>
         IN ev \o WellFormedEvents(Tail(lines), g)

\* C8: reading a chunk sends exactly the events of its well-formed lines, in
\* order, whatever lines with a payload that is not JSON stand among them,
\* and leaves the generation reading.
C8_MalformedSkipped ==
    [][\A g \in DOMAIN handlers :
          handlers'[g].pos > handlers[g].pos
              => LET c == handlers[g].conn
                     chunk == SubSeq(handlers[g].stream,
                                     handlers[g].pos + 1, handlers'[g].pos)
                     sent == SubSeq(log'[c], Len(log[c]) + 1, Len(log'[c]))
                 IN /\ sent = WellFormedEvents(Split(chunk), g)
                    /\ handlers'[g].pc = "read"]_vars

\* A response whose first line is not JSON and whose second line is a token
\* has been read whole, the token has been forwarded and nothing else sent.
C8_Witness ==
    \E g \in DOMAIN handlers :
        /\ handlers[g].kinds = <<"M", "T">>
        /\ handlers[g].pos = Len(handlers[g].stream)
        /\ handlers[g].pc = "read"
        /\ Out(handlers[g].conn, g) = <<TokenEv(g, TokenText(g, 2))>>

\* The completion requests issued for chat handler g / for POST request h.
RequestsOf(src, id) == SelectSeq(upstream, LAMBDA r : r.src = src /\ r.id = id)

\* C9: an upstream failure (connection refused or a status other than 2xx)
\* is reported and not retried: the chat handler has sent one error and
\* issued one request; POST /api/chat has answered 500 and issued one.
C9_UpstreamFailureReported ==
    /\ \A g \in DOMAIN handlers :
          handlers[g].outcome \in {"refused", "notOk"}
              => /\ Len(Terminals(handlers[g].conn, g)) = 1
                 /\ Out(handlers[g].conn, g)[1].type = "error"
                 /\ Len(RequestsOf("ws", g)) = 1
    /\ \A h \in DOMAIN http :
          (http[h].pc = "done" /\ (http[h].upStatus \notin {0, 200}
                                   \/ http[h].reply.error = FetchFailedMsg))
              => /\ http[h].reply.status = 500
                 /\ Len(RequestsOf("http", h)) = 1

\* C10: a request with missing or invalid fields is answered with an error
\* and nothing is sent to the inference process for it.
C10_InvalidRequestRejected ==
    /\ \A c \in Conns : \A i \in DOMAIN log[c] :
          (log[c][i].dir = "in" /\ log[c][i].type = "invalid")
              => /\ i < Len(log[c])
                 /\ log[c][i + 1].dir = "out" /\ log[c][i + 1].type = "error"
    /\ \A g \in DOMAIN handlers :
          handlers[g].message = <<>>
              => /\ RequestsOf("ws", g) = <<>>
                 /\ \E e \in {Out(handlers[g].conn, g)[i] : i \in DOMAIN Out(handlers[g].conn, g)} :
                        e.type = "error"
    /\ \A h \in DOMAIN http :
          http[h].message = <<>>
              => /\ RequestsOf("http", h) = <<>>
                 /\ http[h].reply.status = 500
                 /\ http[h].reply.error # NoMsg

\* ------------------------------------------------ the registry (C11..C15)
\* The connections accepted and not yet closed.
Live == {c \in Conns : conn[c].readyState \in {"OPEN", "CLOSING"}}

Accepted == {c \in Conns : conn[c].readyState # "NONE"}

\* C11: the identifiers given at accept time to two connections differ, and
\* so every connection accepted and not yet closed has its own registry
\* entry: no accept has overwritten it, no close of another has removed it.
C11_IdentifiersUnique ==
    /\ \A c, d \in Accepted : c # d => conn[c].clientId # conn[d].clientId
    /\ \A c \in Live : /\ conn[c].clientId \in DOMAIN activeConnections
                      /\ activeConnections[conn[c].clientId] = c

\* C12: every accept adds one to the size of the registry and the close of
\* that connection takes it off again, whatever other connections do in
\* between: the size is the number of connections accepted and not closed.
C12_AcceptThenCloseKeepsSize ==
    Cardinality(DOMAIN activeConnections) = Cardinality(Live)

\* The connections that have a registry entry.
Registered == {activeConnections[id] : id \in DOMAIN activeConnections}

Pings(c) == SelectSeq(log[c], LAMBDA e : e.type = "ping")

\* A heartbeat timer fires in this step.
Ticked(c) == conn'[c].ticks # conn[c].ticks

ClosedAt(c) ==
    IF \E i \in DOMAIN log[c] : log[c][i] = CloseEv
    THEN CHOOSE i \in DOMAIN log[c] : log[c][i] = CloseEv
    ELSE 0

\* C14: once the close event of a connection has been handled, whether or
\* not a generation was running on it, the connection has no registry entry,
\* its heartbeat timer is cancelled, no ping was sent on it after the close,
\* and the server process is still running.
C14_ClosedConnectionIsGone ==
    \A c \in Conns : conn[c].readyState = "CLOSED" =>
        /\ ClosedAt(c) # 0
        /\ c \notin Registered
        /\ ~conn[c].timer
        /\ \A j \in DOMAIN log[c] : j > ClosedAt(c) => log[c][j].type # "ping"
        /\ proc.server = "running"

\* Connection 1 was closed in the middle of its generation, which went on to
\* its end afterwards; its timer had fired before the close.
C14_Witness ==
    /\ conn[1].readyState = "CLOSED"
    /\ conn[1].ticks = 1
    /\ \E g \in DOMAIN handlers :
          /\ handlers[g].conn = 1
          /\ handlers[g].pc = "ended"
          /\ \E j \in DOMAIN log[1] : j > ClosedAt(1) /\ log[1][j] = DoneEv(g)

\* C15: the reply to GET /api/health gives, as websocket.connected, the
\* number of connections accepted and not yet closed when it is handled, and
\* handling it changes neither the registry nor any connection or generation.
C15_HealthCountsLiveConnections ==
    [][proc'.health # proc.health =>
          /\ proc'.health[Len(proc'.health)].connected = Cardinality(Live)
          /\ UNCHANGED <<activeConnections, conn, log, handlers, upstream, http>>]_vars

\* ------------------------------------------------- the process (C16..C19)
\* Event a stands before event b in what the process did.
Before(a, b) ==
    \E i, j \in DOMAIN proc.events :
        i < j /\ proc.events[i] = a /\ proc.events[j] = b

\* C16: when the server has exited on a signal, SIGTERM or SIGINT, it has
\* called kill on the inference child before it exited.
C16_ChildKilledBeforeExit ==
    proc.server = "exited" =>
        /\ \E s \in {"SIGTERM", "SIGINT"} : proc.events[1] = s
        /\ Before("kill", "exit")
        /\ proc.child # "running"

\* The server exited on SIGINT and the child, which was running, was sent
\* the signal.
C16_Witness ==
    /\ proc.server = "exited"
    /\ proc.events[1] = "SIGINT"
    /\ proc.child = "killed"

\* C17: when the server has exited on a signal, SIGTERM or SIGINT, every
\* connection still in the registry has been closed by it: none is left open.
C17_ConnectionsClosedOnShutdown ==
    proc.server = "exited" => \A c \in Registered : conn[c].readyState # "OPEN"

\* C18: when the inference binary could not be spawned, no connection is
\* accepted, no generation starts, no chat request is handled and no
\* completion request is sent; the process ends on the error and the binary
\* is spawned no second time.
C18_SpawnFailureIsFatal ==
    proc.child \in {"spawnFailed", "failed"} =>
        /\ Accepted = {}
        /\ handlers = <<>>
        /\ http = <<>>
        /\ upstream = <<>>
        /\ proc.health = <<>>
        /\ proc.spawns = 1
        /\ proc.child = "failed" => proc.server = "crashed"

\* The spawn failed and the error event has ended the process.
C18_Witness ==
    /\ proc.child = "failed"
    /\ proc.server = "crashed"
    /\ proc.events = <<"uncaughtException">>

\* C19: when the child exits by itself while the server runs, the exit is
\* logged, the child is not spawned again and the server goes on running.
C19_ChildExitLogged ==
    [][proc.child = "running" /\ proc'.child = "exited" =>
          /\ proc'.logged # proc.logged
          /\ proc'.spawns = proc.spawns
          /\ proc'.server = "running"]_vars

\* ------------------------------------------------- the parameters (C20)
\* What the client supplied, or the default when the field is absent.
Supplied(field, default) == IF field = <<>> THEN default ELSE field[1]

\* C20: the streaming completion request of every chat message carries the
\* message's prompt, its maxTokens as n_predict and its temperature as the
\* client supplied them, the defaults 200 and 0.7 standing in only for an
\* absent field, and stream = true.
C20_RequestCarriesParameters ==
    \A g \in DOMAIN handlers :
        /\ Len(RequestsOf("ws", g)) = 1
        /\ LET r == RequestsOf("ws", g)[1]
           IN /\ r.prompt = handlers[g].message
              /\ r.n_predict = Supplied(handlers[g].maxTokens, DefaultMaxTokens)
              /\ r.temperature = Supplied(handlers[g].temperature, DefaultTemperature)
              /\ r.stream = TRUE

\* ------------------------------------------------- the HTTP API (C21..C23)
\* C21: POST /api/chat with a message issues exactly one completion request,
\* not streaming, with the message as prompt, maxTokens as n_predict and the
\* temperature of the body (200 and 0.7 for absent fields); nothing is
\* replied before the inference process has answered, and the reply to a
\* completion is the content and tokens_used of that answer.
C21_HttpChatRelaysCompletion ==
    \A h \in DOMAIN http : http[h].message # <<>> =>
        /\ Len(RequestsOf("http", h)) = 1
        /\ LET r == RequestsOf("http", h)[1]
           IN /\ r.prompt = http[h].message
              /\ r.n_predict = Supplied(http[h].maxTokens, DefaultMaxTokens)
              /\ r.temperature = Supplied(http[h].temperature, DefaultTemperature)
              /\ r.stream = FALSE
        /\ http[h].pc = "fetch" => http[h].reply = NoReply
        /\ (http[h].pc = "done" /\ http[h].up.status = 200 /\ http[h].up.json) =>
              http[h].reply = Reply(200, NoMsg, http[h].up.content, http[h].up.tokens_used)

\* A request with maxTokens 0 was answered with the completion "hello" and
\* its 3 tokens.
C21_Witness ==
    \E h \in DOMAIN http :
        /\ http[h].message = <<"hi">> /\ http[h].maxTokens = <<0>>
        /\ http[h].temperature = <<5>>
        /\ http[h].pc = "done"
        /\ http[h].reply = Reply(200, NoMsg, <<"hello">>, <<3>>)

\* The names of the directory's entries that end with the model extension.
GgufNames ==
    { disk.models.entries[i].name : i \in
        { k \in DOMAIN disk.models.entries :
            LET name == disk.models.entries[k].name
            IN name[Len(name)] = ".gguf" } }

FileNamed(name) ==
    CHOOSE f \in {disk.models.entries[i] : i \in DOMAIN disk.models.entries} : f.name = name

\* Nothing goes wrong in listing the directory.
ListingSucceeds ==
    /\ disk.models.state = "ok"
    /\ \A n \in GgufNames : FileNamed(n).stat

\* C22: when the models directory can be listed, the reply of GET
\* /api/models has exactly one entry per file whose name ends with .gguf and
\* none for any other file; the size of an entry is the byte size of its file
\* and its sizeMB is an integer nearest to that size over 1,048,576.
C22_ModelsListed ==
    \A k \in DOMAIN proc.models : ListingSucceeds =>
        LET reply == proc.models[k]
        IN /\ reply.status = 200
           /\ Len(reply.models) = Cardinality(GgufNames)
           /\ {reply.models[i].name : i \in DOMAIN reply.models} = GgufNames
           /\ \A i \in DOMAIN reply.models :
                 LET e == reply.models[i]
                     d == 2 * e.size - 2 * e.sizeMB * 1048576
                 IN /\ e.size = FileNamed(e.name).size
                    /\ -1048576 <= d /\ d <= 1048576

\* Two model files and one unrelated file: two entries, one of them of two
\* megabytes.
C22_Witness ==
    /\ proc.models # <<>>
    /\ ListingSucceeds
    /\ Len(disk.models.entries) = 3
    /\ Cardinality(GgufNames) = 2
    /\ Len(proc.models[1].models) = 2
    /\ \E i \in 1..2 : proc.models[1].models[i].sizeMB = 2

\* C23: when listing the models directory fails (the directory is missing or
\* cannot be read, or a file cannot be stat'ed), GET /api/models answers
\* successfully with an empty list.
C23_ListingFailureGivesEmptyList ==
    \A k \in DOMAIN proc.models : ~ListingSucceeds =>
        /\ proc.models[k].status = 200
        /\ proc.models[k].models = <<>>

\* ------------------------------------------------- the launcher (C24, C29, C30)
\* cli.js:126-135  the flags the usage text gives for a setting.
UsageFlags(k) ==
    CASE k = "port" -> {"-p", "--port"}
      [] k = "llamaPort" -> {"--llama-port"}
      [] k = "wsPort" -> {"--ws-port"}
      [] k = "model" -> {"-m", "--model"}
      [] k = "ctxSize" -> {"--ctx-size"}
      [] k = "nGpuLayers" -> {"--gpu-layers"}
      [] k = "parallel" -> {"--parallel"}
      [] k = "host" -> {"--host"}
      [] k = "logFile" -> {"--log-file"}
      [] k = "verbose" -> {"-v", "--verbose"}

\* Flag over file over default, for setting k of the run.
PrecedenceHolds(k, value) ==
    IF UsageFlags(k) \cap cli.given # {}
    THEN IF k = "verbose" THEN value = TRUE
         ELSE \E f \in UsageFlags(k) \cap cli.given : value = <<"flag", f>>
    ELSE IF cli.file.state = "ok" /\ k \in cli.file.keys
    THEN value = FileValue(k, cli.file.verbose)
    ELSE value = Default(k)

\* C24: once the launcher has run, it has resolved a configuration in which
\* every setting has the value of its flag when one was given, otherwise the
\* value of the config file when it has one, otherwise the default.
C24_ConfigPrecedence ==
    cli.pc \notin {"idle", "parsed"} =>
        /\ cli.resolved
        /\ \A k \in Settings : PrecedenceHolds(k, cli.config[k])

\* C29: the server launched by start, as a daemon or in the foreground, runs
\* with every setting at the value the launcher resolved.
C29_ServerRunsResolvedConfig ==
    \A i \in DOMAIN cli.servers : cli.servers[i].started =>
        \A k \in Settings : cli.servers[i].config[k] = cli.config[k]

\* C30: at no time have two inference processes been launched by one start
\* for the same inference port.
C30_OneInferenceProcess ==
    \A i, j \in DOMAIN cli.llamas : i # j => cli.llamas[i].port # cli.llamas[j].port

\* The delays scheduled since the last open are min(3000*n, 15000) for the
\* n-th, at most five of them, as many as attempts were counted.
BackoffHolds(f) ==
    /\ Len(f.delays) = f.reconnectAttempts
    /\ f.reconnectAttempts <= maxReconnectAttempts
    /\ \A n \in DOMAIN f.delays : f.delays[n] = Min(ReconnectStep * n, ReconnectCap)
    /\ \A n \in DOMAIN f.delays : n > 1 => f.delays[n - 1] <= f.delays[n]
    /\ f.ws = "open" => f.reconnectAttempts = 0
    /\ f.timer # 0 => f.ws = "closed" /\ f.lastCode # NormalClosure

\* C25: after an abnormal close the frontend schedules a reconnect whose
\* delay for the n-th consecutive attempt is min(3000*n, 15000) ms, so the
\* delays never decrease; it makes at most 5 consecutive attempts without a
\* successful open, resets the attempt counter to 0 on a successful open, and
\* never reconnects after a normal close (code 1000).
C25_ReconnectBackoff ==
    [][/\ BackoffHolds(front')
       /\ front.ws = "closed" /\ front.lastCode = NormalClosure
            => front'.ws = "closed" /\ front'.timer = 0]_vars

\* Reached: after a successful open and an abnormal close, five attempts with
\* delays 3000, 6000, 9000, 12000, 15000 all failed and no sixth is scheduled.
C25_Witness ==
    /\ front.opens >= 1
    /\ front.delays = <<3000, 6000, 9000, 12000, 15000>>
    /\ front.ws = "closed"
    /\ front.lastCode # NormalClosure
    /\ front.timer = 0

\* The generations whose stream ended with done and whose bot message is
\* still in its chat.
Finished ==
    {g \in front.finished :
        /\ front.at[g][1] \in DOMAIN front.chats
        /\ front.at[g][2] \in DOMAIN front.chats[front.at[g][1]]}

\* C26: after a streamed generation ends with done, the bot message stored in
\* the chat's history, and persisted to local storage, has as content the
\* concatenation in arrival order of the tokens received for it.
C26_StoredReplyIsTokens ==
    \A g \in Finished :
        LET chat == front.at[g][1]
            i == front.at[g][2]
        IN /\ front.chats[chat][i].content = front.received[g]
           /\ front.chatHistory[chat][i].content = front.received[g]

\* C27: the token and done messages sent for a generation depend only on the
\* upstream byte stream, not on how it is split into chunks: a stream read to
\* its end in any chunks made the relay send what the same stream makes it
\* send when it arrives as one chunk.
C27_ChunkingDoesNotMatter ==
    \A g \in DOMAIN handlers :
        handlers[g].outcome = "eof"
            => Out(handlers[g].conn, g) = ProcessChunk(handlers[g].stream, g).events

\* C28: once a connection has closed, the relay reads no further chunk of
\* the upstream stream of a generation of that connection and makes no
\* further send on it.
C28_CloseStopsGeneration ==
    [][\A g \in DOMAIN handlers :
          conn[handlers[g].conn].readyState = "CLOSED"
              => /\ handlers'[g] = handlers[g]
                 /\ log'[handlers[g].conn] = log[handlers[g].conn]]_vars

\* C31: at most one daemon server started by the launcher is running and the
\* PID file names it; a start issued while the recorded server is running
\* launches no second server and leaves the PID file as it is.
C31_OneDaemon ==
    [][/\ Cardinality(os'.running \ os'.signalled) <= 1
       /\ \A pid \in os'.running \ os'.signalled : os'.pidFile = pid
       /\ (os'.last = "start" /\ os.pidFile \in os.running)
            => os'.running = os.running /\ os'.pidFile = os.pidFile]_vars

\* C32: after stop or status returns, no PID file remains that names a
\* process which is not running.
C32_NoStalePidFile ==
    [][os'.last \in {"stop", "status"}
          => os'.pidFile = 0 \/ os'.pidFile \in os'.running]_vars

\* The requests sent on the socket that no done, error or stop has ended.
OpenOnSocket(f) == f.open \cap f.pending

\* C33: while isGenerating is true no request is sent, and no chat message
\* is sent on the connection between an earlier one and the done, error or
\* user stop that ends it.
C33_OneRequestAtATime ==
    [][/\ front.isGenerating => front'.requests = front.requests
       /\ front'.pending \ front.pending # {} => OpenOnSocket(front) = {}]_vars

\* C34: isGenerating is true only if a chat request has been sent, over the
\* socket or over HTTP, that no done, error, HTTP response or user stop has
\* ended.
C34_GeneratingOnlyWithOpenRequest ==
    front.isGenerating => front.open # {}

\* C35: every token accumulated into a bot message belongs to the generation
\* the message was created for.
C35_TokensBelongToTheirMessage ==
    \A g \in DOMAIN front.shown :
        \A k \in DOMAIN front.shown[g] : front.shown[g][k] = g

\* C36: currentChatId is null or the id of a chat of the collection.
C36_CurrentChatExists ==
    front.currentChatId = 0 \/ front.currentChatId \in DOMAIN front.chats

\* The calls of fn that rejected.
Failures == SelectSeq(retry.calls, LAMBDA o : ~o.ok)

\* C37: retry calls fn at most maxRetries times, returns the result of the
\* first call that succeeds without calling fn again, waits
\* initialDelay * 2^i after the i-th failed call (i from 0) only when another
\* call follows, and after maxRetries failures throws the error of the last
\* call.
C37_RetryBackoff ==
    LET n == Len(retry.calls)
    IN /\ n <= retry.maxRetries
       /\ \A k \in 1..(n - 1) : ~retry.calls[k].ok
       /\ \A k \in DOMAIN retry.sleeps :
             /\ retry.sleeps[k] = retry.initialDelay * Pow2(k - 1)
             /\ k <= n
             /\ ~retry.calls[k].ok
             /\ k < retry.maxRetries
       /\ retry.pc = "sleep" => Len(retry.sleeps) = n
       /\ retry.pc = "loop" => Len(retry.sleeps) = Len(Failures) \/ retry.i = retry.maxRetries
       /\ retry.pc = "returned" =>
             /\ n >= 1
             /\ retry.calls[n].ok
             /\ retry.result = <<retry.calls[n].value>>
             /\ Len(retry.sleeps) = n - 1
       /\ retry.pc = "thrown" =>
             /\ n = retry.maxRetries
             /\ Len(Failures) = n
             /\ n >= 1 => /\ retry.result = <<retry.calls[n].value>>
                          /\ Len(retry.sleeps) = n - 1

\* Reached: with maxRetries 4 and the default initialDelay, four calls
\* failed, the waits were 1000, 2000 and 4000, and the error of the fourth
\* call, which differs from that of the third, was thrown.
C37_Witness ==
    /\ retry.pc = "thrown"
    /\ retry.maxRetries = 4
    /\ Len(retry.calls) = 4
    /\ retry.sleeps = <<1000, 2000, 4000>>
    /\ retry.calls[3].value = "e1"
    /\ retry.result = <<"e2">>

====
